---------------------------- MODULE Spec2Model ----------------------------
(***************************************************************************)
(* A model of the object analysis engine of objbrowse: the symbol table    *)
(* (internal/symtab), the ELF reader's size synthesis and relocation view  *)
(* (internal/obj/elf.go) and the Go function table decoder                 *)
(* (internal/functab).                                                     *)
(*                                                                         *)
(* Go slices are modelled as functions over 0..n-1, so that every index    *)
(* in the model is the index the code uses.  Each component has its own    *)
(* variables and its own specification; the variables of the components a  *)
(* specification does not exercise stay at their idle values.              *)
(***************************************************************************)
EXTENDS Integers, Sequences, FiniteSets, TLC

(***************************************************************************)
(* Go slices                                                               *)
(***************************************************************************)
\* len(a)
Len0(a) == Cardinality(DOMAIN a)

\* the empty slice
Empty0 == [i \in {} |-> 0]

\* a[lo:hi]
Slice0(a, lo, hi) == [i \in 0..(hi - lo - 1) |-> a[lo + i]]

\* append(a, x)
Append0(a, x) == [i \in 0..Len0(a) |-> IF i < Len0(a) THEN a[i] ELSE x]

\* append(a, b...)
Concat0(a, b) ==
    [i \in 0..(Len0(a) + Len0(b) - 1) |-> IF i < Len0(a) THEN a[i] ELSE b[i - Len0(a)]]

\* every slice over S of length at most n
Slices(S, n) == UNION {[0..(k - 1) -> S] : k \in 0..n}

\* the permutations of 0..n-1, as slices
Perms(n) == {p \in [0..(n - 1) -> 0..(n - 1)] : \A i, j \in 0..(n - 1) : i # j => p[i] # p[j]}

\* sort.Search(n, f): binary search for the smallest index at which f holds;
\* f is the slice of the predicate's values at 0..n-1.
RECURSIVE SearchLoop(_, _, _)
SearchLoop(f, i, j) ==
    IF i < j
    THEN LET h == (i + j) \div 2
         IN  IF ~f[h] THEN SearchLoop(f, h + 1, j) ELSE SearchLoop(f, i, h)
    ELSE i

Search(n, f) == SearchLoop(f, 0, n)

(***************************************************************************)
(* Which component a specification exercises                               *)
(***************************************************************************)
VARIABLES
    t_syms,      \* Table.syms: every symbol, indexed by SymID
    t_addr,      \* Table.addr: SymIDs in address order, undefined symbols trimmed
    t_built,     \* NewTable has returned
    q_addr,      \* the argument of the last Table.Addr call
    q_res        \* its result, [id, ok]

symVars == <<t_syms, t_addr, t_built, q_addr, q_res>>

VARIABLES
    f_syms,      \* elfFile.syms: the static then the dynamic symbols
    f_loaded,    \* the symbols as read from the file, before size synthesis
    f_order,     \* the order sort.Slice left the address-bearing symbols in
    f_runs       \* how many times elfSynthesizeSizes has run

elfVars == <<f_syms, f_loaded, f_order, f_runs>>

VARIABLES
    r_srcs,        \* s.relocs.srcs: the REL/RELA sections applying to the section
    r_once,        \* s.relocs.load, the sync.Once: done flag and mutex holder
    r_relas,       \* s.relocs.relas
    r_baseSymIDs,  \* s.relocs.baseSymIDs (empty when nil)
    r_baseSymID,   \* s.relocs.baseSymID
    r_err,         \* s.relocs.err is not nil
    r_nload,       \* how many times the function handed to load.Do has run
    r_pc,          \* where each caller of sectRelocs is
    r_q,           \* each caller's ptr and size
    r_ret          \* what each caller's last sectRelocs call returned

relVars == <<r_srcs, r_once, r_relas, r_baseSymIDs, r_baseSymID, r_err, r_nload,
             r_pc, r_q, r_ret>>

VARIABLES
    p_rows,      \* the rows and the end PC the linker encoded, [pcs, values]
    p_data,      \* the PCData: [pc, raw, pcQuantum]
    p_state,     \* "none", "encoded" or "decoded"
    p_tab        \* the PCTable PCData.Decode returned

pcVars == <<p_rows, p_data, p_state, p_tab>>

VARIABLES
    l_fn,        \* the Func: [fi, PC, PCSP, PCData, FuncData], a FuncData being
                 \* what the memory map holds at its ptr
    l_op,        \* the last operation: "none", "func", "Liveness", "Lookup",
                 \* "listing" or "ranges"
    l_lv,        \* what f.Liveness() returned
    l_pc,        \* the PC of the last Lookup
    l_out        \* what the last Lookup or overlay query returned

lvVars == <<l_fn, l_op, l_lv, l_pc, l_out>>

VARIABLES
    ft_in,       \* the contents of runtime.pclntab: how the linker wrote the
                 \* table, and data, its bytes
    ft_mmap,     \* the memory map: what is at each FuncData ptr
    ft_op,       \* the last operation: "none", "opened", "NewFuncTab" or
                 \* "StackMap"
    ft_tab,      \* what NewFuncTab returned
    ft_fd,       \* the ptr of the FuncData of the last StackMap
    ft_out       \* what the last StackMap returned

ftVars == <<ft_in, ft_mmap, ft_op, ft_tab, ft_fd, ft_out>>

VARIABLES
    lc_fs,       \* the file system: the file at each path that can be opened
    lc_files,    \* c.files: the line offsets of each path, nil (empty) when
                 \* the path has none
    lc_runs,     \* how often makeLineOffsets has run for each path
    lc_failed,   \* the paths makeLineOffsets has failed for
    lc_gets,     \* the calls of Get so far, -1 before the cache exists
    lc_arg,      \* the last call of Get: [path, lineStart, nLines]
    lc_ret       \* what it returned: [err, buf]

lcVars == <<lc_fs, lc_files, lc_runs, lc_failed, lc_gets, lc_arg, lc_ret>>

VARIABLES
    rg_in,       \* the argument of the constructor: [ranges, sorted]
    rg_ranges,   \* this.ranges
    rg_made,     \* whether the Ranges has been constructed
    rg_op,       \* the last method called
    rg_arg,      \* its argument
    rg_ret       \* what it returned

rgVars == <<rg_in, rg_ranges, rg_made, rg_op, rg_arg, rg_ret>>

VARIABLES
    im_a,        \* the ranges of the first IntervalMap
    im_b,        \* the ranges of the second
    im_made,     \* whether the maps have been constructed
    im_op,       \* the last method called
    im_arg,      \* the argument of get
    im_ret       \* what the method returned

imVars == <<im_a, im_b, im_made, im_op, im_arg, im_ret>>

VARIABLES
    m_prog,      \* which program runs: cmd/objbrowse or the older objbrowse
    m_pc,        \* where main is: "start", "loaded", "built", "serving"
    m_exit,      \* how the process ended: "running", "fatal", "panic"
    m_objF,      \* what obj.Open returned: "nil", "elf" or "pe"
    m_nsyms,     \* the symbols of the object file
    m_ln,        \* whether the listening socket is open
    m_symtab,    \* whether the symbol table has been built
    m_queries    \* the queries served

mainVars == <<m_prog, m_pc, m_exit, m_objF, m_nsyms, m_ln, m_symtab, m_queries>>

VARIABLES
    hs_value,       \* the React state under the history state
    hs_updaters,    \* the updaters handed to React that have not run yet
    commitQueued,   \* "null", "replace" or "push"
    hs_timer,       \* the commitState timers that have not fired
    pendingState,   \* the encoded value to commit
    hs_history,     \* the calls made on window.history
    hs_dispatched,  \* the kinds of the dispatches since the last commit
    hs_applied,     \* the kinds of the updates that changed the value since
    hs_batches      \* the updates each commit closed

histVars == <<hs_value, hs_updaters, commitQueued, hs_timer, pendingState,
              hs_history, hs_dispatched, hs_applied, hs_batches>>

VARIABLES
    r_got          \* the last Reloc a caller read with Get

relGetVars == <<r_got>>

VARIABLES
    lk_mu,       \* c.lock: 0 when unlocked, else the goroutine that locked it
    lk_fault,    \* an unlocked mutex was unlocked
    lk_files,    \* c.files
    lk_pc,       \* where each caller of Get is
    lk_arg,      \* each caller's arguments
    lk_locked,   \* each caller's local variable locked
    lk_took,     \* whether each caller's call has locked the mutex
    lk_unlocks,  \* how often each caller's call has unlocked the mutex
    lk_ncalls,   \* how many calls each caller has made
    lk_ret       \* what each caller's call returns

lockVars == <<lk_mu, lk_fault, lk_files, lk_pc, lk_arg, lk_locked, lk_took,
              lk_unlocks, lk_ncalls, lk_ret>>

VARIABLES
    pe_syms,     \* f.Symbols
    pe_sects,    \* f.Sections
    pe_pc,       \* where openPE is: "start", "parsed", "opened"
    pe_ret       \* what peSynthesizeSizes did: the sizes, or a panic

peVars == <<pe_syms, pe_sects, pe_pc, pe_ret>>

VARIABLES
    ds_raw,      \* p.raw
    ds_state,    \* "none", "loop", "returned" or "panic"
    ds_pos,      \* d.pos
    ds_i,        \* the loop counter i
    ds_pc,       \* pc
    ds_val,      \* val
    ds_tab       \* tab

stepVars == <<ds_raw, ds_state, ds_pos, ds_i, ds_pc, ds_val, ds_tab>>

VARIABLES
    hx_data,     \* the obj.Data handed to DecodeSym
    hx_state,    \* "none", "data" or "decoded"
    hx_ret       \* the HexViewJS DecodeSym returned

hexVars == <<hx_data, hx_state, hx_ret>>

VARIABLES
    sb_sr,       \* the sourceRange of the function and file
    sb_rows,     \* the rows read from the line table
    sb_state,    \* "rows", "blocks" or "viewed"
    sb_block,    \* the SourceBlock
    sb_view      \* what View did: the indexes into bjs.PCs, or a panic

srcVars == <<sb_sr, sb_rows, sb_state, sb_block, sb_view>>

VARIABLES
    ep_state,    \* EntityPanel's state: { id, panels }
    ep_hist,     \* the encoded states in the session history
    ep_last,     \* the last thing done: "none", "add", "close", "restore"
    ep_pops      \* how many restores there were

panelVars == <<ep_state, ep_hist, ep_last, ep_pops>>

VARIABLES
    ra_file,     \* the file readAt is called on: its bytes and what it implements
    ra_arg,      \* len(buf) and off
    ra_calls,    \* the calls made
    ra_ret       \* the error readAt returned, and buf

readAtVars == <<ra_file, ra_arg, ra_calls, ra_ret>>

vars == <<symVars, elfVars, relVars, pcVars, lvVars, ftVars, lcVars, rgVars, imVars, mainVars, histVars, relGetVars, lockVars, peVars, stepVars, hexVars, srcVars, panelVars, readAtVars>>

\* the variables of every component but c keep their values
Frame(c) ==
    /\ IF c # "symtab" THEN UNCHANGED symVars ELSE TRUE
    /\ IF c # "elfsyms" THEN UNCHANGED elfVars ELSE TRUE
    /\ IF c # "relocs" THEN UNCHANGED relVars ELSE TRUE
    /\ IF c # "pcdata" THEN UNCHANGED pcVars ELSE TRUE
    /\ IF c # "liveness" THEN UNCHANGED lvVars ELSE TRUE
    /\ IF c # "functab" THEN UNCHANGED ftVars ELSE TRUE
    /\ IF c # "linecache" THEN UNCHANGED lcVars ELSE TRUE
    /\ IF c # "ranges" THEN UNCHANGED rgVars ELSE TRUE
    /\ IF c # "intervalmap" THEN UNCHANGED imVars ELSE TRUE
    /\ IF c # "main" THEN UNCHANGED mainVars ELSE TRUE
    /\ IF c # "history" THEN UNCHANGED histVars ELSE TRUE
    /\ IF c # "relget" THEN UNCHANGED relGetVars ELSE TRUE
    /\ IF c # "linelock" THEN UNCHANGED lockVars ELSE TRUE
    /\ IF c # "pe" THEN UNCHANGED peVars ELSE TRUE
    /\ IF c # "pcstep" THEN UNCHANGED stepVars ELSE TRUE
    /\ IF c # "hexview" THEN UNCHANGED hexVars ELSE TRUE
    /\ IF c # "srcblocks" THEN UNCHANGED srcVars ELSE TRUE
    /\ IF c # "panel" THEN UNCHANGED panelVars ELSE TRUE
    /\ IF c # "readat" THEN UNCHANGED readAtVars ELSE TRUE

(***************************************************************************)
(* internal/symtab: Table                                                  *)
(***************************************************************************)
\* the largest symbol value and query address
MaxAddr == 2
\* the largest symbol size
MaxSize == 2
\* the most symbols in a table
MaxSyms == 3
\* symbol names are 1..MaxName, ordered as Go orders strings
MaxName == 2

\* obj.Sym, with the kinds that matter to the table: an undefined symbol, a
\* symbol with an address, and one whose value is no address (absolute, TLS).
SymFlavours == {<<"SymUndef", FALSE>>, <<"SymText", TRUE>>, <<"SymAbsolute", FALSE>>}

Syms ==
    {[Name |-> n, Value |-> v, Size |-> s, Kind |-> f[1], HasAddr |-> f[2]] :
        n \in 1..MaxName, v \in 0..MaxAddr, s \in 0..MaxSize, f \in SymFlavours}

\* the less function NewTable hands to sort.Slice
symLess(si, sj) ==
    LET cati == IF si.Kind = "SymUndef" THEN -1 ELSE 0
        catj == IF sj.Kind = "SymUndef" THEN -1 ELSE 0
    IN  IF cati # catj THEN cati < catj
        ELSE IF si.Value # sj.Value THEN si.Value < sj.Value
        ELSE si.Name < sj.Name

\* the orders sort.Slice may leave addr in: sort.Slice is not stable, so
\* symbols that compare equal may come out in any order
symSorted(syms) ==
    {p \in Perms(Len0(syms)) :
        \A i, j \in DOMAIN p : i < j => ~symLess(syms[p[j]], syms[p[i]])}

\* "Trim undefined symbols."
RECURSIVE trimUndef(_, _)
trimUndef(syms, addr) ==
    IF Len0(addr) > 0 /\ syms[addr[0]].Kind = "SymUndef"
    THEN trimUndef(syms, Slice0(addr, 1, Len0(addr)))
    ELSE addr

\* the loop of Table.Addr over t.addr[i:], from position k, carrying best and
\* bestZeroSize
RECURSIVE addrScan(_, _, _, _, _, _)
addrScan(syms, taddr, addr, k, best, bestZeroSize) ==
    IF k >= Len0(taddr) THEN <<best, bestZeroSize>>
    ELSE LET sym == syms[taddr[k]]
         IN  IF sym.Value > addr THEN <<best, bestZeroSize>>
             ELSE IF ~sym.HasAddr
                  THEN addrScan(syms, taddr, addr, k + 1, best, bestZeroSize)
                  ELSE LET b == IF best = -1 /\ addr < sym.Value + sym.Size THEN k ELSE best
                           z == IF bestZeroSize = -1 /\ sym.Size = 0 THEN k ELSE bestZeroSize
                       IN  addrScan(syms, taddr, addr, k + 1, b, z)

\* where the scan of Table.Addr starts: the last symbol at or below addr
addrStart(syms, taddr, addr) ==
    Search(Len0(taddr), [i \in DOMAIN taddr |-> addr < syms[taddr[i]].Value]) - 1

\* Table.Addr
TableAddr(syms, taddr, addr) ==
    LET i == addrStart(syms, taddr, addr)
    IN  IF i < 0 THEN [id |-> -1, ok |-> FALSE]
        ELSE LET r == addrScan(syms, taddr, addr, i, -1, -1)
                 best == r[1]
                 bestZeroSize == r[2]
             IN  IF best # -1 THEN [id |-> taddr[best], ok |-> TRUE]
                 ELSE IF bestZeroSize # -1 /\ bestZeroSize # Len0(taddr) - 1
                      THEN [id |-> taddr[bestZeroSize], ok |-> TRUE]
                      ELSE [id |-> -1, ok |-> FALSE]

SymIdle ==
    /\ t_syms = Empty0
    /\ t_addr = Empty0
    /\ t_built = FALSE
    /\ q_addr = -1
    /\ q_res = [id |-> -1, ok |-> FALSE]

\* NewTable(symbols)
NewTable ==
    /\ ~t_built
    /\ \E syms \in Slices(Syms, MaxSyms) :
        /\ t_syms' = syms
        /\ \E p \in symSorted(syms) : t_addr' = trimUndef(syms, p)
    /\ t_built' = TRUE
    /\ UNCHANGED <<q_addr, q_res>>
    /\ Frame("symtab")

\* t.Addr(addr)
Addr ==
    /\ t_built
    /\ \E addr \in 0..(MaxAddr + MaxSize) :
        /\ q_addr' = addr
        /\ q_res' = TableAddr(t_syms, t_addr, addr)
    /\ UNCHANGED <<t_syms, t_addr, t_built>>
    /\ Frame("symtab")

\* the symbols of the table that have an address, a size, and cover addr
covering(addr) ==
    {id \in DOMAIN t_syms :
        /\ t_syms[id].HasAddr
        /\ t_syms[id].Size > 0
        /\ t_syms[id].Value <= addr
        /\ addr < t_syms[id].Value + t_syms[id].Size}

\* C1: an address inside the range of exactly one sized, address-bearing
\* symbol resolves to that symbol, whatever other symbols start at or below it.
C1_AddrInsideOneSized ==
    (q_addr # -1 /\ Cardinality(covering(q_addr)) = 1)
        => (q_res.ok /\ q_res.id \in covering(q_addr))

(***************************************************************************)
(* internal/obj/elf.go: elfSynthesizeSizes                                 *)
(***************************************************************************)
\* the most symbols in an ELF file
ElfMaxSyms == 3
\* the size of each section
ElfSectSize == 2
\* the largest symbol size the file itself gives
ElfMaxSymSize == 1

\* elf.SHN_UNDEF
SHN_UNDEF == 0

\* f.elf.Sections: the null section and two sections laid out one after
\* the other
elfSections ==
    [i \in 0..2 |->
        IF i = 0 THEN [Addr |-> 0, Size |-> 0]
        ELSE [Addr |-> 1 + (i - 1) * ElfSectSize, Size |-> ElfSectSize]]

\* elf.Symbol: an undefined symbol, a symbol of either section, and a TLS
\* symbol; a symbol's value lies inside its section or at its end
ElfSyms ==
    {[Section |-> SHN_UNDEF, Value |-> 0, Size |-> 0, Type |-> "STT_NOTYPE"]}
    \cup
    {[Section |-> k, Value |-> elfSections[k].Addr + o, Size |-> s, Type |-> t] :
        k \in 1..2, o \in 0..ElfSectSize, s \in 0..ElfMaxSymSize,
        t \in {"STT_OBJECT", "STT_TLS"}}

\* elfHasAddr (SHN_ABS symbols are not modelled: like undefined symbols they
\* are left out of the sort)
elfHasAddr(sym) ==
    IF sym.Section = SHN_UNDEF THEN FALSE
    ELSE IF sym.Type \in {"STT_FILE", "STT_TLS"} THEN FALSE
    ELSE TRUE

\* the less function elfSynthesizeSizes hands to sort.Slice
elfSizeLess(si, sj) ==
    IF si.Section # sj.Section THEN si.Section < sj.Section
    ELSE si.Value < sj.Value

\* the indexes of the symbols with an address
elfAddrIdx(syms) == {i \in DOMAIN syms : elfHasAddr(syms[i])}

\* the orders sort.Slice may leave addr in
elfSizeSorted(syms) ==
    {a \in [0..(Cardinality(elfAddrIdx(syms)) - 1) -> elfAddrIdx(syms)] :
        /\ \A i, j \in DOMAIN a : i # j => a[i] # a[j]
        /\ \A i, j \in DOMAIN a : i < j => ~elfSizeLess(syms[a[j]], syms[a[i]])}

\* the inner loop "for group < len(addr)": the group's length and anyZero
RECURSIVE elfGroup(_, _, _, _)
elfGroup(syms, addr, group, anyZero) ==
    IF group < Len0(addr)
    THEN LET s1 == syms[addr[0]]
             s2 == syms[addr[group]]
         IN  IF s1.Value # s2.Value \/ s1.Section # s2.Section
             THEN <<group, anyZero>>
             ELSE elfGroup(syms, addr, group + 1, IF s1.Size = 0 THEN TRUE ELSE anyZero)
    ELSE <<group, anyZero>>

\* "Compute the size of these symbols."
elfGroupSize(syms, addr, group) ==
    LET s1 == syms[addr[0]]
    IN  IF group = Len0(addr) \/ s1.Section # syms[addr[group]].Section
        THEN IF 0 < s1.Section /\ s1.Section < Len0(elfSections)
             THEN elfSections[s1.Section].Addr + elfSections[s1.Section].Size - s1.Value
             ELSE 0
        ELSE syms[addr[group]].Value - s1.Value

\* the outer loop "for len(addr) != 0"
RECURSIVE elfSizeLoop(_, _)
elfSizeLoop(syms, addr) ==
    IF Len0(addr) = 0 THEN syms
    ELSE LET g == elfGroup(syms, addr, 1, syms[addr[0]].Size = 0)
             group == g[1]
             anyZero == g[2]
             rest == Slice0(addr, group, Len0(addr))
         IN  IF ~anyZero THEN elfSizeLoop(syms, rest)
             ELSE LET size == elfGroupSize(syms, addr, group)
                      inGroup == {addr[k] : k \in 0..(group - 1)}
                      syms2 == [i \in DOMAIN syms |->
                                   IF i \in inGroup /\ syms[i].Size = 0
                                   THEN [syms[i] EXCEPT !.Size = size]
                                   ELSE syms[i]]
                  IN  elfSizeLoop(syms2, rest)

ElfIdle ==
    /\ f_syms = Empty0
    /\ f_loaded = Empty0
    /\ f_order = Empty0
    /\ f_runs = -1

\* openElf: f.syms = static symbols followed by dynamic symbols
elfLoadSyms ==
    /\ f_runs = -1
    /\ \E syms \in Slices(ElfSyms, ElfMaxSyms) :
        /\ f_syms' = syms
        /\ f_loaded' = syms
    /\ f_runs' = 0
    /\ UNCHANGED f_order
    /\ Frame("elfsyms")

\* the runs of elfSynthesizeSizes a model run makes
ElfMaxRuns == 2

\* elfSynthesizeSizes with a sort that may order the symbols of equal
\* section and value anew on every run
elfSynthesizeSizes_resort ==
    /\ f_runs >= 0
    /\ f_runs < ElfMaxRuns
    /\ \E a \in elfSizeSorted(f_syms) :
        /\ f_order' = a
        /\ f_syms' = elfSizeLoop(f_syms, a)
    /\ f_runs' = f_runs + 1
    /\ UNCHANGED f_loaded
    /\ Frame("elfsyms")

\* elfSynthesizeSizes(f.syms, f.elf.Sections).  The sort's input (the
\* indexes and the keys it compares) is the same on every run, so every run
\* gets the order of the first.
elfSynthesizeSizes ==
    /\ f_runs >= 0
    /\ f_runs < ElfMaxRuns
    /\ \E a \in elfSizeSorted(f_syms) :
        /\ f_runs > 0 => a = f_order
        /\ f_order' = a
        /\ f_syms' = elfSizeLoop(f_syms, a)
    /\ f_runs' = f_runs + 1
    /\ UNCHANGED f_loaded
    /\ Frame("elfsyms")

\* the address-bearing symbols of the run of symbol i: same section and address
elfRun(i) ==
    {j \in elfAddrIdx(f_loaded) :
        /\ f_loaded[j].Section = f_loaded[i].Section
        /\ f_loaded[j].Value = f_loaded[i].Value}

\* the addresses above symbol i's in its section
elfLater(i) ==
    {f_loaded[j].Value : j \in {k \in elfAddrIdx(f_loaded) :
        /\ f_loaded[k].Section = f_loaded[i].Section
        /\ f_loaded[k].Value > f_loaded[i].Value}}

\* the size of the run of symbol i: to the next distinct address of the
\* section, or to the section's end
elfRunSize(i) ==
    IF elfLater(i) = {}
    THEN elfSections[f_loaded[i].Section].Addr + elfSections[f_loaded[i].Section].Size
             - f_loaded[i].Value
    ELSE (CHOOSE v \in elfLater(i) : \A w \in elfLater(i) : v <= w) - f_loaded[i].Value

\* C4: after size synthesis every zero-sized member of a run has the run's
\* size, whichever member of the run the sort put first.
C4_ZeroSizedGetRunSize ==
    f_runs >= 1 =>
        \A i \in elfAddrIdx(f_loaded) :
            f_loaded[i].Size = 0 => f_syms[i].Size = elfRunSize(i)

(***************************************************************************)
(* internal/obj/elf.go: the relocation view of one section                 *)
(***************************************************************************)
\* the callers of sectRelocs
RelThreads == 2
\* the most relocations in the first and in the second relocation section
RelMaxSrc0 == 2
RelMaxSrc1 == 1
\* the largest size of a queried range
RelMaxQSize == 2

elfRelocMaxSize == 16

\* the section the relocations apply to
relSect == [Addr |-> 0, Size |-> 18]

\* the relocation types of the model and, from elfRelocTypes, their sizes
RelTypes == {"R_X86_64_64", "R_X86_64_8", "R_X86_64_TLSDESC"}

elfRelocTypes(typ) ==
    CASE typ = "R_X86_64_64" -> 8
      [] typ = "R_X86_64_8" -> 1
      [] typ = "R_X86_64_TLSDESC" -> 16

\* the offsets relocations are at: the last is past the section's end
RelOffs == {0, 1, 13, 16, 18}

\* elf.Rela64
Relas == {[Off |-> o, Type |-> t] : o \in RelOffs, t \in RelTypes}

\* the addresses queried
RelPtrs == {16, 17}

\* elfRelSection: the relocations in file order, whether sect.Data() fails,
\* and the base SymID of the section's symbol table
RelSrc(R, n, base) ==
    {[err |-> FALSE, data |-> d, baseSymID |-> base] : d \in Slices(R, n)}
    \cup {[err |-> TRUE, data |-> Empty0, baseSymID |-> base]}

\* the files of the model: a section no relocation section applies to, or
\* one with a static and a dynamic relocation section
RelFiles(R, n0, n1) ==
    {Empty0} \cup
    {[i \in 0..1 |-> IF i = 0 THEN s0 ELSE s1] :
        s0 \in RelSrc(R, n0, 0), s1 \in RelSrc(R, n1, 10)}

\* the relocations of the files concurrent callers work on
RelConcRelas ==
    {[Off |-> 13, Type |-> "R_X86_64_64"], [Off |-> 16, Type |-> "R_X86_64_8"]}

\* the orders a sort by Off may leave a in (neither sort.Slice nor sort.Sort
\* is stable)
offSorted(a, off) ==
    {[i \in DOMAIN a |-> a[p[i]]] : p \in
        {q \in Perms(Len0(a)) :
            \A i, j \in DOMAIN a : i < j => ~(off[q[j]] < off[q[i]])}}

\* the keys of elfRelSection.get's sort
relaOff(relas) == [i \in DOMAIN relas |-> relas[i].Off]

\* the keys of elfRelaSorter
pairOff(pairs) == [i \in DOMAIN pairs |-> pairs[i].rela.Off]

\* elfRelSection.get(addr, size) on decoded and sorted relas
elfRelGetSlice(relas, addr, size) ==
    LET start == Search(Len0(relas), [i \in DOMAIN relas |-> relas[i].Off >= addr])
        end == Search(Len0(relas), [i \in DOMAIN relas |-> relas[i].Off >= addr + size])
    IN  Slice0(relas, start, end)

\* elfRelSection.get: the error, or the slices it may return
elfRelGet(src, addr, size) ==
    IF src.err THEN {[err |-> TRUE, relas |-> Empty0]}
    ELSE {[err |-> FALSE, relas |-> elfRelGetSlice(relas, addr, size)] :
             relas \in offSorted(src.data, relaOff(src.data))}

\* the loop over s.relocs.srcs from src k: the set of [err, all, baseSymID]
\* it may end with
RECURSIVE relLoadSrcs(_, _, _, _)
relLoadSrcs(srcs, k, all, baseSymID) ==
    IF k >= Len0(srcs) THEN {[err |-> FALSE, all |-> all, baseSymID |-> baseSymID]}
    ELSE UNION {
        IF g.err
        THEN {[err |-> TRUE, all |-> all, baseSymID |-> baseSymID]}
        ELSE IF Len0(g.relas) > 0
             THEN relLoadSrcs(srcs, k + 1, Append0(all, g.relas),
                              Append0(baseSymID, srcs[k].baseSymID))
             ELSE relLoadSrcs(srcs, k + 1, all, baseSymID)
        : g \in elfRelGet(srcs[k], relSect.Addr, relSect.Size)}

\* "Merge the relocations.": each entry paired with its table's base SymID
RECURSIVE relMergeAll(_, _, _, _)
relMergeAll(all, baseSymID, i, acc) ==
    IF i >= Len0(all) THEN acc
    ELSE relMergeAll(all, baseSymID, i + 1,
            Concat0(acc, [k \in DOMAIN all[i] |->
                             [rela |-> all[i][k], base |-> baseSymID[i]]]))

\* the function handed to s.relocs.load.Do: the set of values it may leave
\* in [err, relas, baseSymIDs, baseSymID], given the fields' old values
relLoadBody(srcs, old) ==
    UNION {
        IF l.err THEN {[old EXCEPT !.err = TRUE]}
        ELSE IF Len0(l.all) = 0 THEN {old}
        ELSE IF Len0(l.all) = 1
             THEN {[old EXCEPT !.relas = l.all[0], !.baseSymID = l.baseSymID[0]]}
             ELSE LET pairs == relMergeAll(l.all, l.baseSymID, 0, Empty0)
                  IN  {[old EXCEPT !.relas = [i \in DOMAIN m |-> m[i].rela],
                                   !.baseSymIDs = [i \in DOMAIN m |-> m[i].base]] :
                          m \in offSorted(pairs, pairOff(pairs))}
        : l \in relLoadSrcs(srcs, 0, Empty0, Empty0)}

\* the search forgets that a relocation may start before ptr
relSearchStart_exact(relas, ptr) ==
    Search(Len0(relas), [i \in DOMAIN relas |-> relas[i].Off >= ptr])

\* the binary search for the first relocation that could overlap ptr
relSearchStart(relas, ptr) ==
    Search(Len0(relas), [i \in DOMAIN relas |-> relas[i].Off + elfRelocMaxSize >= ptr])

\* "linearly trim until we get a real overlap"
RECURSIVE relTrim(_, _, _)
relTrim(relas, ptr, start) ==
    IF start < Len0(relas)
    THEN IF relas[start].Off + elfRelocTypes(relas[start].Type) >= ptr
         THEN start
         ELSE relTrim(relas, ptr, start + 1)
    ELSE start

\* "Find the iterator end."
relSearchEnd(relas, ptr, size) ==
    Search(Len0(relas), [i \in DOMAIN relas |-> relas[i].Off >= ptr + size])

\* sectRelocs from "relas := s.relocs.relas" on: the *elfRelocs returned
relSliceOf(relas, baseSymIDs, baseSymID, ptr, size) ==
    LET start == relTrim(relas, ptr, relSearchStart(relas, ptr))
        end == relSearchEnd(relas, ptr, size)
    IN  IF start > end THEN [kind |-> "panic"]
        ELSE [kind |-> "ok",
              from |-> relas,
              relas |-> Slice0(relas, start, end),
              baseSymID |-> baseSymID,
              baseSymIDs |-> IF Len0(baseSymIDs) # 0
                             THEN Slice0(baseSymIDs, start, end) ELSE Empty0]

RelIdle ==
    /\ r_srcs = Empty0
    /\ r_once = [done |-> FALSE, m |-> 0]
    /\ r_relas = Empty0
    /\ r_baseSymIDs = Empty0
    /\ r_baseSymID = 0
    /\ r_err = FALSE
    /\ r_nload = 0
    /\ r_pc = [t \in 1..RelThreads |-> "off"]
    /\ r_q = [t \in 1..RelThreads |-> [ptr |-> 0, size |-> 0]]
    /\ r_ret = [t \in 1..RelThreads |-> [kind |-> "none"]]

\* the state openElf leaves a file of the set files in
RelOpened(files) ==
    /\ r_srcs \in files
    /\ r_once = [done |-> FALSE, m |-> 0]
    /\ r_relas = Empty0
    /\ r_baseSymIDs = Empty0
    /\ r_baseSymID = 0
    /\ r_err = FALSE
    /\ r_nload = 0
    /\ r_pc = [t \in 1..RelThreads |-> "idle"]
    /\ r_q = [t \in 1..RelThreads |-> [ptr |-> 0, size |-> 0]]
    /\ r_ret = [t \in 1..RelThreads |-> [kind |-> "none"]]

\* f.sectRelocs(sect, ptr, size) is called: without relocation sections it
\* returns nil at once, otherwise it goes on to s.relocs.load.Do
sectRelocsCall(t) ==
    /\ r_pc[t] = "idle"
    /\ \E ptr \in RelPtrs, size \in 0..RelMaxQSize :
        r_q' = [r_q EXCEPT ![t] = [ptr |-> ptr, size |-> size]]
    /\ IF Len0(r_srcs) = 0
       THEN /\ r_ret' = [r_ret EXCEPT ![t] = [kind |-> "nil"]]
            /\ r_pc' = r_pc
       ELSE /\ r_ret' = [r_ret EXCEPT ![t] = [kind |-> "none"]]
            /\ r_pc' = [r_pc EXCEPT ![t] = "do"]
    /\ UNCHANGED <<r_srcs, r_once, r_relas, r_baseSymIDs, r_baseSymID, r_err, r_nload>>
    /\ Frame("relocs")

\* sync.Once.Do, the fast path: whether the caller skips doSlow
onceSkips(once) == once.done

\* the mutex of the Once excludes no one
onceMayLock_noMutex(once) == TRUE

\* sync.Once.doSlow: whether the caller may take the mutex
onceMayLock(once) == once.m = 0

\* load.Do reads the done flag
onceDo(t) ==
    /\ r_pc[t] = "do"
    /\ r_pc' = [r_pc EXCEPT ![t] = IF onceSkips(r_once) THEN "slice" ELSE "lock"]
    /\ UNCHANGED <<r_srcs, r_once, r_relas, r_baseSymIDs, r_baseSymID, r_err, r_nload,
                   r_q, r_ret>>
    /\ Frame("relocs")

\* doSlow takes the mutex and reads the done flag again: when it is set it
\* unlocks and returns, otherwise it goes on to run the function
onceDoSlow(t) ==
    /\ r_pc[t] = "lock"
    /\ onceMayLock(r_once)
    /\ IF r_once.done
       THEN /\ r_pc' = [r_pc EXCEPT ![t] = "slice"]
            /\ r_once' = r_once
       ELSE /\ r_pc' = [r_pc EXCEPT ![t] = "load"]
            /\ r_once' = [r_once EXCEPT !.m = t]
    /\ UNCHANGED <<r_srcs, r_relas, r_baseSymIDs, r_baseSymID, r_err, r_nload, r_q, r_ret>>
    /\ Frame("relocs")

\* the function handed to load.Do runs: decode every source, merge, sort
sectRelocsLoad(t) ==
    /\ r_pc[t] = "load"
    /\ \E new \in relLoadBody(r_srcs, [err |-> r_err, relas |-> r_relas,
                                       baseSymIDs |-> r_baseSymIDs,
                                       baseSymID |-> r_baseSymID]) :
        /\ r_err' = new.err
        /\ r_relas' = new.relas
        /\ r_baseSymIDs' = new.baseSymIDs
        /\ r_baseSymID' = new.baseSymID
    /\ r_nload' = r_nload + 1
    /\ r_pc' = [r_pc EXCEPT ![t] = "loaded"]
    /\ UNCHANGED <<r_srcs, r_once, r_q, r_ret>>
    /\ Frame("relocs")

\* doSlow's deferred calls: store done, unlock
onceDone(t) ==
    /\ r_pc[t] = "loaded"
    /\ r_once' = [done |-> TRUE, m |-> 0]
    /\ r_pc' = [r_pc EXCEPT ![t] = "slice"]
    /\ UNCHANGED <<r_srcs, r_relas, r_baseSymIDs, r_baseSymID, r_err, r_nload, r_q, r_ret>>
    /\ Frame("relocs")

\* the rest of sectRelocs: the error, or the slice of the merged array
sectRelocsSlice(t) ==
    /\ r_pc[t] = "slice"
    /\ r_ret' = [r_ret EXCEPT ![t] =
                    IF r_err THEN [kind |-> "err"]
                    ELSE relSliceOf(r_relas, r_baseSymIDs, r_baseSymID,
                                    r_q[t].ptr, r_q[t].size)]
    /\ r_pc' = [r_pc EXCEPT ![t] = "idle"]
    /\ UNCHANGED <<r_srcs, r_once, r_relas, r_baseSymIDs, r_baseSymID, r_err, r_nload, r_q>>
    /\ Frame("relocs")

\* the relocations of every source that apply to the section
relApplying ==
    UNION {{r_srcs[k].data[i] : i \in DOMAIN r_srcs[k].data} : k \in DOMAIN r_srcs}
    \cap {r \in Relas : relSect.Addr <= r.Off /\ r.Off < relSect.Addr + relSect.Size}

\* r overlaps [ptr, ptr+size), half-open
relOverlaps(r, ptr, size) ==
    r.Off < ptr + size /\ r.Off + elfRelocTypes(r.Type) > ptr

\* the relocations a result holds
relReturned(ret) == {ret.relas[i] : i \in DOMAIN ret.relas}

\* C2: every relocation applying to the section that overlaps the queried
\* range is in the sequence sectRelocs returns, also when it starts before ptr.
C2_OverlappingIncluded ==
    \A t \in 1..RelThreads :
        r_ret[t].kind = "ok" =>
            \A r \in relApplying :
                relOverlaps(r, r_q[t].ptr, r_q[t].size) => r \in relReturned(r_ret[t])

\* a caller got a relocation that starts before its range and overlaps it
C2_Witness ==
    \E t \in 1..RelThreads :
        /\ r_ret[t].kind = "ok"
        /\ \E r \in relReturned(r_ret[t]) :
            /\ r.Off + 3 = r_q[t].ptr
            /\ r.Type = "R_X86_64_64"
            /\ relOverlaps(r, r_q[t].ptr, r_q[t].size)

\* C10: under any interleaving of sectRelocs calls for one section the
\* decode-and-merge runs once, no caller reads the merged array before that
\* run has finished, and every caller slices the same array.
C10_LoadOnce ==
    /\ r_nload <= 1
    /\ \A t \in 1..RelThreads :
        r_pc[t] = "slice" => (r_once.done /\ r_once.m = 0 /\ r_nload = 1)
    /\ \A t \in 1..RelThreads :
        r_ret[t].kind = "ok" => r_ret[t].from = r_relas
    /\ \A t, u \in 1..RelThreads :
        (r_ret[t].kind = "ok" /\ r_ret[u].kind = "ok") => r_ret[t].from = r_ret[u].from

\* one caller has sliced the merged array of two tables while another, which
\* read the done flag before the load finished, is still on its way in
C10_Witness ==
    \E t, u \in 1..RelThreads :
        /\ t # u
        /\ r_ret[t].kind = "ok"
        /\ Len0(r_ret[t].from) >= 2
        /\ r_pc[u] = "lock"

\* C3: every relocation sectRelocs returns overlaps the queried range; one
\* that ends exactly at ptr is not returned.
C3_ReturnedOverlap ==
    \A t \in 1..RelThreads :
        r_ret[t].kind = "ok" =>
            \A r \in relReturned(r_ret[t]) : relOverlaps(r, r_q[t].ptr, r_q[t].size)

(***************************************************************************)
(* internal/functab: the varint decoder and PCData.Decode                  *)
(***************************************************************************)
\* binary.MaxVarintLen64
MaxVarintLen64 == 10

\* x << s, x >> s and the low seven bits of b
Shl(x, s) == IF x = 0 THEN 0 ELSE x * (2 ^ s)

Low7(b) == b % 128

\* binary.Uvarint(buf[pos:]): [val, read]
RECURSIVE UvarintLoop(_, _, _, _, _)
UvarintLoop(buf, pos, i, x, s) ==
    IF pos + i >= Len0(buf) THEN [val |-> 0, read |-> 0]
    ELSE LET b == buf[pos + i]
         IN  IF i = MaxVarintLen64 THEN [val |-> 0, read |-> -(i + 1)]
             ELSE IF b < 128
                  THEN IF i = MaxVarintLen64 - 1 /\ b > 1
                       THEN [val |-> 0, read |-> -(i + 1)]
                       ELSE [val |-> x + Shl(b, s), read |-> i + 1]
                  ELSE UvarintLoop(buf, pos, i + 1, x + Shl(Low7(b), s), s + 7)

binaryUvarint(buf, pos) == UvarintLoop(buf, pos, 0, 0, 0)

\* binary.Varint(buf[pos:]): the zig-zag decoding of the uvarint
binaryVarint(buf, pos) ==
    LET u == binaryUvarint(buf, pos)
        x == u.val \div 2
    IN  [val |-> IF u.val % 2 # 0 THEN -x - 1 ELSE x, read |-> u.read]

\* the loop of PCData.Decode from iteration i, the decoder at pos
RECURSIVE DecodeLoop(_, _, _, _, _, _, _)

\* the loop takes a zero value delta for the terminator in the first row too
DecodeLoop_zeroFirst(raw, pcQuantum, i, pos, pc, val, tab) ==
    LET v == binaryVarint(raw, pos)
        vdelta == v.val
    IN  IF vdelta = 0
        THEN [PCs |-> Append0(tab.PCs, pc), Values |-> tab.Values, Missing |-> Empty0]
        ELSE LET val2 == val + vdelta
                 u == binaryUvarint(raw, pos + v.read)
             IN  DecodeLoop(raw, pcQuantum, i + 1, pos + v.read + u.read,
                            pc + u.val * pcQuantum, val2,
                            [PCs |-> Append0(tab.PCs, pc),
                             Values |-> Append0(tab.Values, val2)])

DecodeLoop(raw, pcQuantum, i, pos, pc, val, tab) ==
    LET v == binaryVarint(raw, pos)
        vdelta == v.val
    IN  IF vdelta = 0 /\ i # 0
        THEN [PCs |-> Append0(tab.PCs, pc), Values |-> tab.Values, Missing |-> Empty0]
        ELSE LET val2 == val + vdelta
                 u == binaryUvarint(raw, pos + v.read)
             IN  DecodeLoop(raw, pcQuantum, i + 1, pos + v.read + u.read,
                            pc + u.val * pcQuantum, val2,
                            [PCs |-> Append0(tab.PCs, pc),
                             Values |-> Append0(tab.Values, val2)])

\* PCData.Decode; a nil Missing is the empty slice
PCDataDecode(p) ==
    DecodeLoop(p.raw, p.pcQuantum, 0, 0, p.pc, -1, [PCs |-> Empty0, Values |-> Empty0])

\* the rows in a function's table
PcMaxRows == 3

\* the values the rows take; the step from -1 to 64 and back takes a
\* two-byte varint
PcValues == {-2, -1, 0, 1, 64}

\* the PC deltas, in quanta; 128 takes a two-byte uvarint
PcDeltas == {1, 2, 128}

\* the linker's encoding of an unsigned and of a signed varint
RECURSIVE PutUvarint(_)
PutUvarint(x) ==
    IF x < 128 THEN [i \in {0} |-> x]
    ELSE Concat0([i \in {0} |-> 128 + Low7(x)], PutUvarint(x \div 128))

PutVarint(x) == PutUvarint(IF x < 0 THEN -2 * x - 1 ELSE 2 * x)

\* the linker's encoding of rows (pcs[i], values[i]) ending at pcs[n]: value
\* deltas from -1, PC deltas in quanta, and the zero terminator
RECURSIVE EncodeRows(_, _, _, _)
EncodeRows(rows, pcQuantum, i, prev) ==
    IF i >= Len0(rows.values) THEN PutVarint(0)
    ELSE Concat0(PutVarint(rows.values[i] - prev),
            Concat0(PutUvarint((rows.pcs[i + 1] - rows.pcs[i]) \div pcQuantum),
                    EncodeRows(rows, pcQuantum, i + 1, rows.values[i])))

\* the sum of the first k deltas
RECURSIVE SumTo(_, _)
SumTo(ds, k) == IF k = 0 THEN 0 ELSE ds[k - 1] + SumTo(ds, k - 1)

\* the tables with n rows from pc: each value differs from the one before,
\* each PC is above the one before by a multiple of the quantum
RowTablesOf(V, D, pc, pcQuantum, n) ==
    {[pcs |-> [i \in 0..n |-> pc + SumTo(ds, i) * pcQuantum], values |-> vs] :
        vs \in {w \in [0..(n - 1) -> V] :
                   \A i \in 1..(n - 1) : w[i] # w[i - 1]},
        ds \in [0..(n - 1) -> D]}

RowTables(pc, pcQuantum, n) == RowTablesOf(PcValues, PcDeltas, pc, pcQuantum, n)

PcIdle ==
    /\ p_rows = [pcs |-> Empty0, values |-> Empty0]
    /\ p_data = [pc |-> 0, raw |-> Empty0, pcQuantum |-> 1]
    /\ p_state = "none"
    /\ p_tab = [PCs |-> Empty0, Values |-> Empty0, Missing |-> Empty0]

\* the linker writes a function's table; NewFuncTab makes the PCData that
\* starts at the function's entry PC
linkPCData ==
    /\ p_state = "none"
    /\ \E pc \in {0, 16}, pcQuantum \in {1, 4}, n \in 1..PcMaxRows :
        \E rows \in RowTables(pc, pcQuantum, n) :
            /\ p_rows' = rows
            /\ p_data' = [pc |-> pc, raw |-> EncodeRows(rows, pcQuantum, 0, -1),
                          pcQuantum |-> pcQuantum]
    /\ p_state' = "encoded"
    /\ UNCHANGED p_tab
    /\ Frame("pcdata")

\* p.Decode()
Decode ==
    /\ p_state = "encoded"
    /\ p_tab' = PCDataDecode(p_data)
    /\ p_state' = "decoded"
    /\ UNCHANGED <<p_rows, p_data>>
    /\ Frame("pcdata")

\* C5: Decode of the encoding of a row sequence returns exactly its values
\* and its PCs followed by the end of the last row.
C5_DecodeRoundTrip ==
    p_state = "decoded" =>
        /\ p_tab.Values = p_rows.values
        /\ p_tab.PCs = p_rows.pcs

\* a decoded table whose first value is -1 (a zero first delta) and which
\* has a two-byte value delta and a two-byte PC delta
C5_Witness ==
    /\ p_state = "decoded"
    /\ Len0(p_tab.Values) = 3
    /\ p_tab.Values[0] = -1
    /\ p_tab.Values[1] = 64
    /\ p_tab.PCs[1] - p_tab.PCs[0] = 128 * p_data.pcQuantum
    /\ p_tab.Values = p_rows.values

(***************************************************************************)
(* internal/functab: the decoder                                           *)
(***************************************************************************)
\* every value from here up is past the end of any table of the model,
\* whether it is taken for an offset or for a count
Huge == 2 ^ 30

\* binary.BigEndian.Uint16/32/64(data[pos:]) over k bytes
RECURSIVE beUint(_, _, _, _)
beUint(data, pos, k, acc) ==
    IF k = 0 THEN acc
    ELSE beUint(data, pos + 1, k - 1,
                IF acc >= 2 ^ 22 THEN Huge ELSE acc * 256 + data[pos])

\* binary.LittleEndian.Uint16/32/64(data[pos:]) over k bytes
RECURSIVE leUint(_, _, _, _)
leUint(data, pos, k, acc) ==
    IF k = 0 THEN acc
    ELSE leUint(data, pos, k - 1,
                IF acc >= 2 ^ 22 THEN Huge ELSE acc * 256 + data[pos + k - 1])

orderUint(order, data, pos, k) ==
    IF order = "LittleEndian" THEN leUint(data, pos, k, 0) ELSE beUint(data, pos, k, 0)

\* decoder{order, ptrSize, data, pos}; backing is the array under data, up
\* to its capacity, and ok is off once an index or a slice expression has
\* panicked
decoder(order, ptrSize, data, backing, pos) ==
    [order |-> order, ptrSize |-> ptrSize, data |-> data, backing |-> backing,
     pos |-> pos, ok |-> TRUE]

\* the run-time panic of an index or slice expression out of range
decPanic(d) == [val |-> 0, d |-> [d EXCEPT !.ok = FALSE]]

\* d.order.UintN(d.data[d.pos:]); d.pos += k
decUint(d, k) ==
    IF ~d.ok \/ d.pos > Len0(d.data) \/ Len0(d.data) - d.pos < k THEN decPanic(d)
    ELSE [val |-> orderUint(d.order, d.data, d.pos, k),
          d |-> [d EXCEPT !.pos = d.pos + k]]

Uint8(d) == decUint(d, 1)

Uint16(d) == decUint(d, 2)

Uint32(d) == decUint(d, 4)

\* int32(d.Uint32()): the negative values are Huge once they are taken for
\* a uint64
Int32(d) == Uint32(d)

Ptr(d) ==
    IF d.ptrSize \in {4, 8} THEN decUint(d, d.ptrSize) ELSE decPanic(d)

\* d.data[d.pos : d.pos+n]: the upper bound of a slice expression is
\* checked against the capacity
Bytes(d, n) ==
    IF ~d.ok \/ d.pos + n > Len0(d.backing) THEN decPanic(d)
    ELSE [val |-> Slice0(d.backing, d.pos, d.pos + n),
          d |-> [d EXCEPT !.pos = d.pos + n]]

\* the loop "for d.data[d.pos] != 0": the position of the zero byte, or -1
\* when the index runs off the data
RECURSIVE CStringLoop(_, _)
CStringLoop(data, pos) ==
    IF pos >= Len0(data) THEN -1
    ELSE IF data[pos] = 0 THEN pos
    ELSE CStringLoop(data, pos + 1)

CString(d) ==
    LET z == IF d.ok THEN CStringLoop(d.data, d.pos) ELSE -1
    IN  IF z < 0 THEN decPanic(d)
        ELSE [val |-> Slice0(d.data, d.pos, z), d |-> [d EXCEPT !.pos = z + 1]]

\* the bytes of v in k bytes, as the linker writes them
RECURSIVE PutUintLE(_, _)
PutUintLE(k, v) ==
    IF k = 0 THEN Empty0
    ELSE Concat0([i \in {0} |-> v % 256], PutUintLE(k - 1, v \div 256))

PutUint(order, k, v) ==
    LET le == PutUintLE(k, v)
    IN  IF order = "LittleEndian" THEN le ELSE [i \in 0..(k - 1) |-> le[k - 1 - i]]

(***************************************************************************)
(* internal/functab: FuncData.StackMap                                     *)
(***************************************************************************)
\* What the memory map holds at a FuncData's ptr: mem, the bytes from ptr to
\* the end of the section; readable, how many of them the file gives without
\* a read error; slack, the bytes of the array behind the slice Data
\* returns, past the slice's length.

\* f.Read(size), that is f.fi.mmap.Data(f.ptr, size): "If size exceeds the
\* size of the data at ptr, the result will be smaller than size."
Read(fd, size) ==
    LET n == IF size > Len0(fd.mem) THEN Len0(fd.mem) ELSE size
        data == Slice0(fd.mem, 0, n)
    IN  [err |-> n > fd.readable, data |-> data, backing |-> Concat0(data, fd.slack)]

\* the loop "for i := range bitmaps"
RECURSIVE stackMapBitmaps(_, _, _, _, _)
stackMapBitmaps(d, n, nbit, bytes, bitmaps) ==
    IF Len0(bitmaps) >= n THEN [d |-> d, bitmaps |-> bitmaps]
    ELSE LET b == Bytes(d, bytes)
         IN  IF ~b.d.ok THEN [d |-> b.d, bitmaps |-> bitmaps]
             ELSE stackMapBitmaps(b.d, n, nbit, bytes,
                                  Append0(bitmaps, [N |-> nbit, Bytes |-> b.val]))

\* f.StackMap(): an error, a panic, or the bitmaps
StackMap(fi, fd) ==
    LET hdr == Read(fd, 8)
        d == decoder(fi.order, fi.ptrSize, hdr.data, hdr.backing, 0)
        n == Uint32(d)
        nbit == Uint32(n.d)
        bytes == (nbit.val + 7) \div 8
        data == Read(fd, 8 + n.val * bytes)
        bm == stackMapBitmaps([nbit.d EXCEPT !.data = data.data, !.backing = data.backing],
                              n.val, nbit.val, bytes, Empty0)
    IN  IF hdr.err THEN [kind |-> "err", bitmaps |-> Empty0]
        ELSE IF ~nbit.d.ok THEN [kind |-> "panic", bitmaps |-> Empty0]
        ELSE IF data.err THEN [kind |-> "err", bitmaps |-> Empty0]
        ELSE IF ~bm.d.ok THEN [kind |-> "panic", bitmaps |-> Empty0]
        ELSE [kind |-> "ok", bitmaps |-> bm.bitmaps]

\* b.Hex(): the number of bits and the two hex digits of each byte
Hex(b) ==
    [bits |-> b.N,
     hex |-> [i \in 0..(2 * ((b.N + 7) \div 8) - 1) |->
                 IF i % 2 = 0 THEN b.Bytes[i \div 2] \div 16 ELSE b.Bytes[i \div 2] % 16]]

(***************************************************************************)
(* internal/functab: Func.Liveness and PCTable.Lookup; objbrowse: the     *)
(* liveness overlays                                                      *)
(***************************************************************************)
PCDATA_StackMapIndex == 0

FUNCDATA_ArgsPointerMaps == 0

FUNCDATA_LocalsPointerMaps == 1

\* Liveness{}
LivenessZero ==
    [Index |-> [PCs |-> Empty0, Values |-> Empty0, Missing |-> Empty0],
     Args |-> Empty0, Locals |-> Empty0]

\* "Index -1 actually means index 0."
minusOneIsZero(stackMap) ==
    [stackMap EXCEPT !.Values =
        [i \in DOMAIN stackMap.Values |->
            IF stackMap.Values[i] = -1 THEN 0 ELSE stackMap.Values[i]]]

\* a leading row is put before a first row of value 0 too
stackMapZeroToFirst_prepend(f, stackMap) ==
    IF stackMap.PCs[0] > f.PC
    THEN [stackMap EXCEPT !.PCs = Concat0([i \in {0} |-> f.PC], stackMap.PCs),
                          !.Values = Concat0([i \in {0} |-> 0], stackMap.Values)]
    ELSE stackMap

\* "the runtime uses stack map 0 up to the first entry"
stackMapZeroToFirst(f, stackMap) ==
    IF stackMap.PCs[0] > f.PC
    THEN IF stackMap.Values[0] = 0
         THEN [stackMap EXCEPT !.PCs[0] = f.PC]
         ELSE [stackMap EXCEPT !.PCs = Concat0([i \in {0} |-> f.PC], stackMap.PCs),
                               !.Values = Concat0([i \in {0} |-> 0], stackMap.Values)]
    ELSE stackMap

\* "Index -2 means "not a safe point"": Missing stays nil without such a row
markMissing(stackMap) ==
    IF \E i \in DOMAIN stackMap.Values : stackMap.Values[i] = -2
    THEN [stackMap EXCEPT !.Missing =
            [i \in DOMAIN stackMap.Values |-> stackMap.Values[i] = -2]]
    ELSE stackMap

\* "Apply runtime conventions to the stack map."
applyConventions(f, stackMap) ==
    IF Len0(stackMap.PCs) > 0
    THEN markMissing(stackMapZeroToFirst(f, minusOneIsZero(stackMap)))
    ELSE stackMap

\* f.Liveness(): kind is "panic" when an index expression panics; err is
\* whether the error returned is non-nil
FuncLiveness(f) ==
    LET panic == [kind |-> "panic", err |-> FALSE] @@ LivenessZero
        zero == [kind |-> "ok", err |-> FALSE] @@ LivenessZero
    IN  IF Len0(f.PCData) <= PCDATA_StackMapIndex THEN zero
        ELSE IF Len0(f.FuncData) <= FUNCDATA_ArgsPointerMaps THEN panic
        ELSE LET args == StackMap(f.fi, f.FuncData[FUNCDATA_ArgsPointerMaps])
             IN  IF args.kind = "panic" THEN panic
                 ELSE IF args.kind = "err" THEN zero
                 ELSE IF Len0(f.FuncData) <= FUNCDATA_LocalsPointerMaps THEN panic
                 ELSE LET locals == StackMap(f.fi, f.FuncData[FUNCDATA_LocalsPointerMaps])
                      IN  IF locals.kind = "panic" THEN panic
                          ELSE IF locals.kind = "err" THEN zero
                          ELSE [kind |-> "ok", err |-> FALSE,
                                Index |-> applyConventions(f,
                                    PCDataDecode(f.PCData[PCDATA_StackMapIndex])),
                                Args |-> args.bitmaps, Locals |-> locals.bitmaps]

\* tab.Lookup(pc)
PCTableLookup(tab, pc) ==
    LET pcs == tab.PCs
        n == Len0(pcs)
    IN  IF n = 0 \/ pc < pcs[0] \/ pc >= pcs[n - 1] THEN [val |-> 0, ok |-> FALSE]
        ELSE LET i == Search(n, [k \in 0..(n - 1) |-> pcs[k] > pc])
             IN  IF Len0(tab.Missing) # 0 /\ tab.Missing[i - 1]
                 THEN [val |-> 0, ok |-> FALSE]
                 ELSE [val |-> tab.Values[i - 1], ok |-> TRUE]

\* pcTableToJS(t), from row i on
RECURSIVE pcTableToJSLoop(_, _, _)
pcTableToJSLoop(t, i, out) ==
    IF i >= Len0(t.Values) THEN out
    ELSE IF Len0(t.Missing) # 0 /\ t.Missing[i] THEN pcTableToJSLoop(t, i + 1, out)
    ELSE pcTableToJSLoop(t, i + 1,
            Append0(out, [Start |-> t.PCs[i], End |-> t.PCs[i + 1], Val |-> t.Values[i]]))

pcTableToJS(t) == pcTableToJSLoop(t, 0, Empty0)

\* the overlay's "Decode bitmaps.": what it returns early, or the bitmaps in hex
overlayBitmaps(liveness) ==
    IF liveness.kind = "panic" THEN [kind |-> "panic"]
    ELSE IF liveness.err THEN [kind |-> "err"]
    ELSE IF Len0(liveness.Locals) = 0 THEN [kind |-> "nil"]
    ELSE [kind |-> "ok",
          Locals |-> [i \in DOMAIN liveness.Locals |-> Hex(liveness.Locals[i])],
          Args |-> [i \in DOMAIN liveness.Args |-> Hex(liveness.Args[i])]]

\* LivenessOverlay.liveness, the overlay of ranges
overlayRanges(fn) ==
    LET liveness == FuncLiveness(fn)
        l == overlayBitmaps(liveness)
    IN  IF l.kind # "ok" THEN l
        ELSE l @@ [Indexes |-> pcTableToJS(liveness.Index),
                   SPOff |-> pcTableToJS(PCDataDecode(fn.PCSP))]

\* the listing's index of one instruction
listingIndex(index, pc) ==
    LET stackIdx == PCTableLookup(index, pc).val
    IN  IF stackIdx < -1 \/ Len0(index.PCs) = 0 THEN -1
        ELSE IF stackIdx = -1 THEN 0
        ELSE stackIdx

\* the listing's SP offset of one instruction
listingSPOff(pcsp, pc) ==
    LET r == PCTableLookup(pcsp, pc) IN IF ~r.ok THEN -1 ELSE r.val

\* LivenessOverlay.liveness, the overlay with one entry per instruction
overlayListing(fn, insts) ==
    LET liveness == FuncLiveness(fn)
        l == overlayBitmaps(liveness)
        pcsp == PCDataDecode(fn.PCSP)
    IN  IF l.kind # "ok" THEN l
        ELSE l @@ [SPOff |-> [i \in DOMAIN insts |-> listingSPOff(pcsp, insts[i])],
                   Indexes |-> [i \in DOMAIN insts |-> listingIndex(liveness.Index, insts[i])]]

\* the most rows in a stack-map table
LvMaxRows == 3
\* the bitmaps of a whole stack map
LvBitmaps == 3

\* the raw stack-map indexes: no safe point, bitmap 0 by convention, and two
\* bitmaps
LvValues == {-2, -1, 0, 2}

\* the PC deltas of the rows
LvDeltas == {1, 2}

\* the entry PC of the function, and the PCs its stack-map table starts at.
\* NewFuncTab starts the table at the entry PC; Func is a struct of exported
\* fields, and only a Func whose PC a client has lowered has a table that
\* starts above it.
LvEntryPCs == {4}

LvTablePCs == {4, 5}

\* fileInfo
LvFi == [order |-> "LittleEndian", ptrSize |-> 8, pcQuantum |-> 1]

\* the linker's stack map: n, nbit, and n bitmaps of (nbit+7)/8 bytes
EncodeStackMap(fi, n, nbit) ==
    Concat0(PutUint(fi.order, 4, n),
        Concat0(PutUint(fi.order, 4, nbit),
                [i \in 0..(n * ((nbit + 7) \div 8) - 1) |-> 1 + i]))

\* the memory at a FuncData's ptr: a whole stack map of one bitmap or of
\* LvBitmaps, one cut inside the header, one cut inside the bitmaps (with
\* and without spare capacity behind the slice), and one the file cannot
\* give the header or the bitmaps of
StackMapsOf(fi) ==
    LET one == EncodeStackMap(fi, 1, 8)
        all == EncodeStackMap(fi, LvBitmaps, 8)
        cut == Slice0(all, 0, Len0(all) - 1)
    IN  {[mem |-> one, readable |-> Len0(one), slack |-> Empty0],
         [mem |-> all, readable |-> Len0(all), slack |-> Empty0],
         [mem |-> Slice0(all, 0, 4), readable |-> 4, slack |-> Empty0],
         [mem |-> cut, readable |-> Len0(cut), slack |-> Empty0],
         [mem |-> cut, readable |-> Len0(cut), slack |-> [i \in {0} |-> 170]],
         [mem |-> all, readable |-> 0, slack |-> Empty0],
         [mem |-> all, readable |-> 8, slack |-> Empty0]}

LvStackMaps == StackMapsOf(LvFi)

\* the Funcs of the model: with or without a stack-map table, with none, one
\* or two FuncData
LvFuncs ==
    {[fi |-> LvFi, PC |-> pc,
      PCSP |-> [pc |-> pc, pcQuantum |-> LvFi.pcQuantum,
                raw |-> EncodeRows([pcs |-> [i \in 0..1 |-> pc + 2 * i],
                                    values |-> [i \in {0} |-> 8]],
                                   LvFi.pcQuantum, 0, -1)],
      PCData |-> pcdata, FuncData |-> funcdata] :
        pc \in LvEntryPCs,
        pcdata \in {Empty0} \cup
            {[i \in {0} |-> [pc |-> rows.pcs[0], pcQuantum |-> LvFi.pcQuantum,
                             raw |-> EncodeRows(rows, LvFi.pcQuantum, 0, -1)]] :
                rows \in UNION {RowTablesOf(LvValues, LvDeltas, tpc, LvFi.pcQuantum, n) :
                                    tpc \in LvTablePCs, n \in 1..LvMaxRows}},
        funcdata \in Slices(LvStackMaps, 2)}

LvIdle ==
    /\ l_fn = [fi |-> LvFi, PC |-> 0,
               PCSP |-> [pc |-> 0, pcQuantum |-> 1, raw |-> Empty0],
               PCData |-> Empty0, FuncData |-> Empty0]
    /\ l_op = "none"
    /\ l_lv = [kind |-> "none"]
    /\ l_pc = 0
    /\ l_out = [kind |-> "none"]

\* a Func comes out of the function table
newFunc ==
    /\ l_op = "none"
    /\ l_fn' \in LvFuncs
    /\ l_op' = "func"
    /\ UNCHANGED <<l_lv, l_pc, l_out>>
    /\ Frame("liveness")

\* f.Liveness()
Liveness ==
    /\ l_op = "func"
    /\ l_lv' = FuncLiveness(l_fn)
    /\ l_op' = "Liveness"
    /\ UNCHANGED <<l_fn, l_pc, l_out>>
    /\ Frame("liveness")

\* the end of the function: the end of its last stack-map row, or of its
\* PCSP table
lvEnd(fn) ==
    LET e == PCDataDecode(fn.PCSP).PCs[1]
    IN  IF Len0(fn.PCData) = 0 THEN e
        ELSE LET pcs == PCDataDecode(fn.PCData[0]).PCs
                 t == pcs[Len0(pcs) - 1]
             IN  IF t > e THEN t ELSE e

\* liveness.Index.Lookup(pc), for a PC of the function, the one below its
\* entry and the one at its end
Lookup ==
    /\ l_op = "Liveness"
    /\ l_lv.kind = "ok"
    /\ \E pc \in (l_fn.PC - 1)..lvEnd(l_fn) :
        /\ l_pc' = pc
        /\ l_out' = PCTableLookup(l_lv.Index, pc)
    /\ l_op' = "Lookup"
    /\ UNCHANGED <<l_fn, l_lv>>
    /\ Frame("liveness")

\* the instructions of the function's symbol: one at every address
lvInsts(fn) == [i \in 0..(lvEnd(fn) - fn.PC - 1) |-> fn.PC + i]

\* the overlay with one entry per instruction is asked for the function
livenessListing ==
    /\ l_op = "func"
    /\ l_out' = overlayListing(l_fn, lvInsts(l_fn))
    /\ l_op' = "listing"
    /\ UNCHANGED <<l_fn, l_lv, l_pc>>
    /\ Frame("liveness")

\* the overlay of ranges is asked for the function
livenessRanges ==
    /\ l_op = "func"
    /\ l_out' = overlayRanges(l_fn)
    /\ l_op' = "ranges"
    /\ UNCHANGED <<l_fn, l_lv, l_pc>>
    /\ Frame("liveness")

\* the table PCData.Decode gives Func.Liveness, before the conventions
lvRaw == PCDataDecode(l_fn.PCData[PCDATA_StackMapIndex])

\* the raw index of the row pc is in is -2
lvRawMissingAt(pc) ==
    /\ Len0(l_fn.PCData) > 0
    /\ \E j \in DOMAIN lvRaw.Values :
        lvRaw.PCs[j] <= pc /\ pc < lvRaw.PCs[j + 1] /\ lvRaw.Values[j] = -2

\* Liveness returned a table
lvHasIndex ==
    /\ l_op \in {"Liveness", "Lookup"}
    /\ l_lv.kind = "ok"
    /\ Len0(l_lv.Index.PCs) > 0

\* the rows the conventions put before the raw rows
lvShift ==
    IF lvRaw.PCs[0] > l_fn.PC /\ lvRaw.Values[0] \notin {-1, 0} THEN 1 ELSE 0

\* C6: in the table Func.Liveness returns every raw -1 is 0, exactly the rows
\* of raw index -2 are Missing, and a table that starts above the entry PC
\* covers [entry PC, first breakpoint) with index 0: the first row widened
\* when its value is 0, a row (entry PC, 0) prepended otherwise, Missing[i]
\* being the row of Values[i] also after the prepend.
C6_LivenessNormalizes ==
    lvHasIndex =>
        LET tab == l_lv.Index
            k == lvShift
        IN  /\ Len0(tab.Values) = Len0(lvRaw.Values) + k
            /\ Len0(tab.PCs) = Len0(tab.Values) + 1
            /\ Len0(tab.Missing) \in {0, Len0(tab.Values)}
            /\ \A i \in DOMAIN lvRaw.Values :
                tab.Values[i + k] = IF lvRaw.Values[i] = -1 THEN 0 ELSE lvRaw.Values[i]
            /\ \A i \in DOMAIN lvRaw.PCs : i > 0 => tab.PCs[i + k] = lvRaw.PCs[i]
            /\ tab.PCs[0] = IF lvRaw.PCs[0] > l_fn.PC THEN l_fn.PC ELSE lvRaw.PCs[0]
            /\ k = 1 => tab.Values[0] = 0 /\ tab.PCs[1] = lvRaw.PCs[0]
            /\ \A j \in DOMAIN tab.Values :
                (Len0(tab.Missing) # 0 /\ tab.Missing[j])
                    <=> (j >= k /\ lvRaw.Values[j - k] = -2)

\* Liveness prepended a row to a table that has a raw -1 and a raw -2
C6_Witness ==
    /\ lvHasIndex
    /\ l_op = "Liveness"
    /\ lvShift = 1
    /\ \E i \in DOMAIN lvRaw.Values : lvRaw.Values[i] = -1
    /\ \E i \in DOMAIN lvRaw.Values : lvRaw.Values[i] = -2 /\ l_lv.Index.Missing[i + 1]

\* C7: a row of raw index -2 is never reported with a bitmap index: Lookup
\* returns ok = false for every PC in it, pcTableToJS emits no range for
\* it, and the listing records -1 for the instructions in it.
C7_MissingNeverReported ==
    /\ (l_op = "Lookup" /\ lvRawMissingAt(l_pc)) => ~l_out.ok
    /\ (l_op = "ranges" /\ l_out.kind = "ok") =>
            \A i \in DOMAIN l_out.Indexes :
                \A pc \in l_out.Indexes[i].Start..(l_out.Indexes[i].End - 1) :
                    ~lvRawMissingAt(pc)
    /\ (l_op = "listing" /\ l_out.kind = "ok") =>
            \A i \in DOMAIN l_out.Indexes :
                lvRawMissingAt(lvInsts(l_fn)[i]) => l_out.Indexes[i] = -1

\* the bytes the stack map in fd takes, or Huge when its header is cut short
stackMapSize(order, fd) ==
    IF Len0(fd.mem) < 8 THEN Huge
    ELSE 8 + orderUint(order, fd.mem, 0, 4)
                * ((orderUint(order, fd.mem, 4, 4) + 7) \div 8)

\* the bitmap array in fd cannot be read: the memory view fails on it or
\* gives fewer bytes than it takes
lvUnreadable(fd) ==
    \/ Len0(fd.mem) < stackMapSize(LvFi.order, fd)
    \/ fd.readable < stackMapSize(LvFi.order, fd)

\* the function's stack-map data is malformed: a bitmap array cannot be
\* read, or an index of the table is not below the number of bitmaps
lvMalformed(f) ==
    /\ Len0(f.PCData) > 0
    /\ Len0(f.FuncData) = 2
    /\ \/ \E i \in DOMAIN f.FuncData : lvUnreadable(f.FuncData[i])
       \/ \E i \in DOMAIN f.FuncData, j \in DOMAIN lvRaw.Values :
            lvRaw.Values[j] >= orderUint(LvFi.order, f.FuncData[i].mem, 0, 4)

\* C8: for a function whose stack-map data is malformed Func.Liveness
\* returns a non-nil error and does not panic.
C8_MalformedReportsError ==
    (l_op = "Liveness" /\ lvMalformed(l_fn)) => (l_lv.kind = "ok" /\ l_lv.err)

(***************************************************************************)
(* internal/functab: NewFuncTab                                            *)
(***************************************************************************)
\* a Go slice of the bytes of a sequence
SliceOf(seq) == [i \in 0..(Len(seq) - 1) |-> seq[i + 1]]

\* the magic word 0xfffffffb in each byte order
ftMagic(order) ==
    IF order = "LittleEndian" THEN SliceOf(<<251, 255, 255, 255>>)
    ELSE SliceOf(<<255, 255, 255, 251>>)

\* the loop over the byte orders: binary.Read fails on fewer than 8 bytes,
\* and a magic word of neither order is an error
hdrOrder(data) ==
    IF Len0(data) < 8 THEN "err"
    ELSE IF Slice0(data, 0, 4) = ftMagic("LittleEndian") THEN "LittleEndian"
    ELSE IF Slice0(data, 0, 4) = ftMagic("BigEndian") THEN "BigEndian"
    ELSE "err"

\* data[off:]
sliceFrom(d, data, off) ==
    IF ~d.ok \/ off > Len0(data) THEN decPanic(d)
    ELSE [val |-> Slice0(data, off, Len0(data)), d |-> d]

\* "Read func PC/offset table.": the loop over offsets
RECURSIVE readOffsets(_, _, _)
readOffsets(d, nfunc, offsets) ==
    IF ~d.ok \/ Len0(offsets) >= nfunc THEN [d |-> d, offsets |-> offsets]
    ELSE LET pc == Ptr(d)
             off == Ptr(pc.d)
         IN  readOffsets(off.d, nfunc, Append0(offsets, off.val))

\* "PC data offsets (npcdata * uint32)"
RECURSIVE readPCData(_, _, _, _, _, _)
readPCData(fi, data, d, pc, npcdata, pcdata) ==
    IF ~d.ok \/ Len0(pcdata) >= npcdata THEN [d |-> d, pcdata |-> pcdata]
    ELSE LET off == Uint32(d)
             raw == sliceFrom(off.d, data, off.val)
         IN  readPCData(fi, data, raw.d, pc, npcdata,
                        Append0(pcdata, [pc |-> pc, pcQuantum |-> fi.pcQuantum,
                                         raw |-> raw.val]))

\* "Func data offsets (nfuncdata * ptr)"
RECURSIVE readFuncData(_, _, _)
readFuncData(d, nfuncdata, funcdata) ==
    IF ~d.ok \/ Len0(funcdata) >= nfuncdata THEN [d |-> d, funcdata |-> funcdata]
    ELSE LET ptr == Ptr(d)
         IN  readFuncData(ptr.d, nfuncdata, Append0(funcdata, ptr.val))

\* one turn of "Read func structures.": the decoder it leaves and the Func
readFunc(fi, data, d0, offset) ==
    LET pc == Ptr([d0 EXCEPT !.pos = offset])
        nameoff == Int32(pc.d)
        args == Int32(nameoff.d)
        deferreturn == Uint32(args.d)
        pcspOff == Uint32(deferreturn.d)
        pcsp == sliceFrom(pcspOff.d, data, pcspOff.val)
        pcfile == Uint32(pcsp.d)
        pcln == Uint32(pcfile.d)
        npcdata == Uint32(pcln.d)
        funcID == Uint8(npcdata.d)
        unused == Uint16(funcID.d)
        nfuncdata == Uint8(unused.d)
        pcdata == readPCData(fi, data, nfuncdata.d, pc.val, npcdata.val, Empty0)
        aligned == IF pcdata.d.ptrSize = 8 /\ (pcdata.d.pos \div 4) % 2 # 0
                   THEN [pcdata.d EXCEPT !.pos = pcdata.d.pos + 4]
                   ELSE pcdata.d
        funcdata == readFuncData(aligned, nfuncdata.val, Empty0)
        name == CString([funcdata.d EXCEPT !.pos = nameoff.val])
    IN  [d |-> name.d,
         fn |-> IF ~name.d.ok THEN [PC |-> 0]
                ELSE [PC |-> pc.val, Name |-> name.val,
                      PCSP |-> [pc |-> pc.val, pcQuantum |-> fi.pcQuantum, raw |-> pcsp.val],
                      PCData |-> pcdata.pcdata, FuncData |-> funcdata.funcdata]]

\* "Read func structures."
RECURSIVE readFuncs(_, _, _, _, _)
readFuncs(fi, data, d, offsets, funcs) ==
    IF ~d.ok \/ Len0(funcs) >= Len0(offsets) THEN [d |-> d, funcs |-> funcs]
    ELSE LET f == readFunc(fi, data, d, offsets[Len0(funcs)])
         IN  readFuncs(fi, data, f.d, offsets, Append0(funcs, f.fn))

\* NewFuncTab(data, mmap): an error, a panic, or the FuncTab
NewFuncTabOf(data) ==
    LET order == hdrOrder(data)
        fi == [order |-> order, ptrSize |-> data[7], pcQuantum |-> data[6]]
        d == decoder(order, data[7], data, data, 8)
        nfunc == Ptr(d)
        offsets == readOffsets(nfunc.d, nfunc.val, Empty0)
        endPC == Ptr(offsets.d)
        fileTabOffset == Uint32(endPC.d)
        funcs == readFuncs(fi, data, fileTabOffset.d, offsets.offsets, Empty0)
    IN  IF order = "err" THEN [kind |-> "err"]
        ELSE IF ~funcs.d.ok THEN [kind |-> "panic"]
        ELSE [kind |-> "ok", fi |-> fi, Funcs |-> funcs.funcs, EndPC |-> endPC.val]

\* the function of the linked table: its name "f", its entry PC, the PC
\* after it, and the ptrs of its two FuncData
FtName == SliceOf(<<102>>)

FtPC == 64

FtEndPC == 66

FtFuncDataPtrs == SliceOf(<<16, 32>>)

\* the byte orders and pointer sizes of the tables, and the PCData of the
\* function (with two and a pointer size of 8 the FuncData need padding)
FtOrders == {"LittleEndian", "BigEndian"}

FtPtrSizes == {4, 8}

FtNPCData == {1, 2}

\* what the linker got wrong: nothing, the magic word, the pointer size,
\* a count that is too large, or an offset that points past the table's end
FtBad == {"none", "magic", "ptrSize", "nfunc", "npcdata", "nfuncdata",
          "offset", "nameoff", "nameoffNegative", "pcspOff", "pcdataOff"}

\* the table of every function: one row from FtPC to FtEndPC
ftRaw(value) ==
    EncodeRows([pcs |-> SliceOf(<<FtPC, FtEndPC>>), values |-> SliceOf(<<value>>)], 1, 0, -1)

\* where the linker puts the pieces of the table: see pclntab in
\* cmd/link/internal/ld/pcln.go
ftLayout(ptrSize, npcdata) ==
    LET funcOff == 8 + ptrSize + 2 * ptrSize + ptrSize + 4
        pcdataAt == funcOff + ptrSize + 7 * 4 + 4
        funcdataAt == pcdataAt + 4 * npcdata
        pad == IF ptrSize = 8 /\ (funcdataAt \div 4) % 2 # 0 THEN 4 ELSE 0
        nameOff == funcdataAt + pad + ptrSize * Len0(FtFuncDataPtrs)
        pcspOff == nameOff + Len0(FtName) + 1
        pcdataOff == [i \in 0..(npcdata - 1) |-> pcspOff + Len0(ftRaw(8)) * (i + 1)]
    IN  [funcOff |-> funcOff, pad |-> pad, nameOff |-> nameOff, pcspOff |-> pcspOff,
         pcdataOff |-> pcdataOff,
         len |-> pcspOff + Len0(ftRaw(8)) * (npcdata + 1)]

\* the concatenation of a sequence of slices
RECURSIVE ConcatAll(_)
ConcatAll(parts) ==
    IF parts = <<>> THEN Empty0 ELSE Concat0(Head(parts), ConcatAll(Tail(parts)))

\* the table as the linker writes it, with what it got wrong
EncodeFuncTab(order, ptrSize, npcdata, bad) ==
    LET lay == ftLayout(ptrSize, npcdata)
        past == lay.len + 1
        many == 200
        u32(v) == PutUint(order, 4, v)
        ptr(v) == PutUint(order, ptrSize, v)
        zeros(k) == [i \in 0..(k - 1) |-> 0]
    IN  ConcatAll(<<
            IF bad = "magic" THEN zeros(4) ELSE ftMagic(order),
            SliceOf(<<0, 0, 1, IF bad = "ptrSize" THEN 3 ELSE ptrSize>>),
            ptr(IF bad = "nfunc" THEN many ELSE 1),
            ptr(FtPC),
            ptr(IF bad = "offset" THEN past ELSE lay.funcOff),
            ptr(FtEndPC),
            u32(0),
            ptr(FtPC),
            IF bad = "nameoffNegative" THEN [i \in 0..3 |-> 255]
            ELSE u32(IF bad = "nameoff" THEN past ELSE lay.nameOff),
            u32(0),
            u32(0),
            u32(IF bad = "pcspOff" THEN past ELSE lay.pcspOff),
            u32(0),
            u32(0),
            u32(IF bad = "npcdata" THEN many ELSE npcdata),
            zeros(3),
            SliceOf(<<IF bad = "nfuncdata" THEN many ELSE Len0(FtFuncDataPtrs)>>),
            ConcatAll([i \in 1..npcdata |->
                u32(IF bad = "pcdataOff" /\ i = npcdata THEN past ELSE lay.pcdataOff[i - 1])]),
            zeros(lay.pad),
            ConcatAll([i \in 1..Len0(FtFuncDataPtrs) |-> ptr(FtFuncDataPtrs[i - 1])]),
            FtName,
            zeros(1),
            ftRaw(8),
            ConcatAll([i \in 1..npcdata |-> ftRaw(i)])
        >>)

\* the contents of runtime.pclntab the model decodes: every table the
\* linker may write, and the well-formed ones cut short at every length
FtTables ==
    LET tab(order, ptrSize, npcdata, bad, cut) ==
            [order |-> order, ptrSize |-> ptrSize, npcdata |-> npcdata, bad |-> bad,
             data |-> Slice0(EncodeFuncTab(order, ptrSize, npcdata, bad), 0, cut)]
    IN  UNION {{tab(order, ptrSize, npcdata, bad, ftLayout(ptrSize, npcdata).len) :
                    order \in FtOrders, bad \in FtBad}
               \cup {tab(order, ptrSize, npcdata, "none", cut) :
                        order \in FtOrders, cut \in 0..ftLayout(ptrSize, npcdata).len} :
                  ptrSize \in FtPtrSizes, npcdata \in FtNPCData}

\* the memory maps: what is at each FuncData ptr
FtMaps(order) ==
    [{FtFuncDataPtrs[i] : i \in DOMAIN FtFuncDataPtrs} ->
        StackMapsOf([order |-> order])]

\* mmap.Data at a ptr outside the map: "If ptr isn't in the memory map at
\* all, the result will be nil."
ftMemAt(mmap, ptr) ==
    IF ptr \in DOMAIN mmap THEN mmap[ptr]
    ELSE [mem |-> Empty0, readable |-> 0, slack |-> Empty0]

FtIdle ==
    /\ ft_in = [order |-> "LittleEndian", ptrSize |-> 0, npcdata |-> 0, bad |-> "none",
                data |-> Empty0]
    /\ ft_mmap = <<>>
    /\ ft_op = "none"
    /\ ft_tab = [kind |-> "none"]
    /\ ft_fd = 0
    /\ ft_out = [kind |-> "none"]

\* the object file is opened: SymbolData of runtime.pclntab and the memory
\* map
openPclntab ==
    /\ ft_op = "none"
    /\ ft_in' \in FtTables
    /\ ft_mmap' \in FtMaps(ft_in'.order)
    /\ ft_op' = "opened"
    /\ UNCHANGED <<ft_tab, ft_fd, ft_out>>
    /\ Frame("functab")

\* functab.NewFuncTab(data, mmap)
NewFuncTab ==
    /\ ft_op = "opened"
    /\ ft_tab' = NewFuncTabOf(ft_in.data)
    /\ ft_op' = "NewFuncTab"
    /\ UNCHANGED <<ft_in, ft_mmap, ft_fd, ft_out>>
    /\ Frame("functab")

\* fn.FuncData[i].StackMap() on the function of the decoded table
FuncDataStackMap ==
    /\ ft_op = "NewFuncTab"
    /\ ft_tab.kind = "ok"
    /\ \E f \in DOMAIN ft_tab.Funcs :
        \E i \in DOMAIN ft_tab.Funcs[f].FuncData :
            /\ ft_fd' = ft_tab.Funcs[f].FuncData[i]
            /\ ft_out' = StackMap(ft_tab.fi, ftMemAt(ft_mmap, ft_tab.Funcs[f].FuncData[i]))
    /\ ft_op' = "StackMap"
    /\ UNCHANGED <<ft_in, ft_mmap, ft_tab>>
    /\ Frame("functab")

\* the function-table offset or the name offset of the table's function
\* points past the end of the table
ftOffsetPastEnd ==
    LET lay == ftLayout(ft_in.ptrSize, ft_in.npcdata)
    IN  /\ hdrOrder(ft_in.data) # "err"
        /\ \/ ft_in.bad \in {"offset", "nameoff", "nameoffNegative"}
           \/ ft_in.bad = "none" /\ (lay.funcOff > Len0(ft_in.data)
                                      \/ lay.nameOff > Len0(ft_in.data))

\* the memory view gives fewer bytes than StackMap asks for: fewer than the
\* header, or fewer than the header says the bitmaps take
ftShortRead ==
    LET fd == ftMemAt(ft_mmap, ft_fd)
    IN  Len0(fd.mem) < stackMapSize(ft_in.order, fd)

\* C9: no functab decode step indexes outside the bytes it was given: on a
\* short read of the memory view in FuncData.StackMap, and on a function
\* table whose function offset or name offset points past its end,
\* decoding reports an error.
C9_ShortInputReportsError ==
    /\ (ft_op = "NewFuncTab" /\ ftOffsetPastEnd) => ft_tab.kind = "err"
    /\ (ft_op = "StackMap" /\ ftShortRead) => ft_out.kind = "err"

(***************************************************************************)
(* internal/src: LineCache                                                 *)
(***************************************************************************)
\* the longest file, in bytes
LcMaxFile == 3
\* the size of makeLineOffsets' read buffer (4096 in the code)
LcBlock == 2
\* the calls of Get a model run makes
LcMaxGets == 2

\* '\n' and a byte that is no line break
LcNL == 10

LcBytes == {10, 120}

\* the paths: one of a file, one of no file
LcPaths == {"file", "gone"}

\* The files of the model.  kind is what the opened file implements besides
\* io.Reader; readErrAt is the offset at which reading fails, -1 for a file
\* that reads without error.
LcFiles ==
    {[data |-> data, kind |-> kind, readErrAt |-> e] :
        data \in Slices(LcBytes, LcMaxFile),
        kind \in {"ReaderAt", "ReadSeeker", "Reader"},
        e \in {-1, 1}}

\* bytes.IndexByte(block, c), from index i on
RECURSIVE IndexByteFrom(_, _, _)
IndexByteFrom(block, c, i) ==
    IF i >= Len0(block) THEN -1
    ELSE IF block[i] = c THEN i
    ELSE IndexByteFrom(block, c, i + 1)

IndexByte(block, c) == IndexByteFrom(block, c, 0)

\* "Find line breaks in this block.": pos and offsets after the block
RECURSIVE scanBlock(_, _, _)

\* the scan of a block that takes a line break's index in the block for its
\* offset in the file
scanBlock_inBlock(block, pos, offsets) ==
    IF Len0(block) = 0 THEN [pos |-> pos, offsets |-> offsets]
    ELSE LET i == IndexByte(block, LcNL)
             nl == IF i # -1 THEN i ELSE Len0(block) - 1
         IN  scanBlock(Slice0(block, nl + 1, Len0(block)), pos + nl + 1,
                       IF i # -1 THEN Append0(offsets, i + 1) ELSE offsets)

scanBlock(block, pos, offsets) ==
    IF Len0(block) = 0 THEN [pos |-> pos, offsets |-> offsets]
    ELSE LET i == IndexByte(block, LcNL)
             nl == IF i # -1 THEN i ELSE Len0(block) - 1
         IN  scanBlock(Slice0(block, nl + 1, Len0(block)), pos + nl + 1,
                       IF i # -1 THEN Append0(offsets, pos + i + 1) ELSE offsets)

\* f.Read(buf[:]) at file offset at: n and err ("nil", "EOF" or "error").
\* The reader gives want bytes unless fewer are left before the end of the
\* file or before the offset at which reading fails; eofWithData is whether
\* it reports EOF together with the last bytes.
fileRead(file, at, want, eofWithData) ==
    LET left == Len0(file.data) - at
        toErr == IF file.readErrAt >= at THEN file.readErrAt - at ELSE left
        n0 == IF want < left THEN want ELSE left
        n == IF toErr < n0 THEN toErr ELSE n0
    IN  IF file.readErrAt = at THEN [n |-> 0, err |-> "error"]
        ELSE IF left = 0 THEN [n |-> 0, err |-> "EOF"]
        ELSE [n |-> n, err |-> IF eofWithData /\ n = left THEN "EOF" ELSE "nil"]

\* the loop of makeLineOffsets from its k-th read: plan[k] is how many bytes
\* of the buffer that read fills
RECURSIVE lineOffsetsLoop(_, _, _, _, _, _)
lineOffsetsLoop(file, plan, eofWithData, k, pos, offsets) ==
    LET want == IF k < Len0(plan) THEN plan[k] ELSE LcBlock
        r == fileRead(file, pos, want, eofWithData)
        s == scanBlock(Slice0(file.data, pos, pos + r.n), pos, offsets)
    IN  IF r.err = "EOF"
        THEN [err |-> FALSE,
              offsets |-> IF Len0(s.offsets) > 0 /\ s.offsets[Len0(s.offsets) - 1] # s.pos
                          THEN Append0(s.offsets, s.pos)
                          ELSE s.offsets]
        ELSE IF r.err # "nil" THEN [err |-> TRUE, offsets |-> Empty0]
        ELSE lineOffsetsLoop(file, plan, eofWithData, k + 1, s.pos, s.offsets)

\* fs.Open(path): whether it fails
openFails(fs, path) == path \notin DOMAIN fs

\* makeLineOffsets(fs, path)
makeLineOffsets(fs, path, plan, eofWithData) ==
    IF openFails(fs, path) THEN [err |-> TRUE, offsets |-> Empty0]
    ELSE lineOffsetsLoop(fs[path], plan, eofWithData, 0, 0, [i \in {0} |-> 0])

\* readAt(f, buf, off) with len(buf) = size: got is how many bytes a Read
\* into buf gives when it may give any (Read "returns what is available
\* instead of waiting for more"; ReadAt gives all there is)
readAt(file, size, off, got) ==
    LET left == IF off > Len0(file.data) THEN 0 ELSE Len0(file.data) - off
        avail == IF size < left THEN size ELSE left
        n == IF file.kind = "ReaderAt" \/ avail = 0 THEN avail
             ELSE IF got < avail THEN got ELSE avail
        failed == \/ file.readErrAt >= 0 /\ file.readErrAt < off + n
                  \/ file.readErrAt >= 0 /\ file.kind = "Reader" /\ file.readErrAt < off
                  \/ file.kind = "Reader" /\ off > Len0(file.data)
    IN  IF failed \/ n # size THEN [err |-> TRUE, buf |-> Empty0]
        ELSE [err |-> FALSE, buf |-> Slice0(file.data, off, off + n)]

\* c.Get(fs, path, lineStart, nLines): what it returns, c.files after it,
\* and whether it ran makeLineOffsets and whether that failed
LineCacheGet(files, fs, path, lineStart0, nLines0, plan, eofWithData, got) ==
    LET lineStart == IF lineStart0 < 1 THEN 1 ELSE lineStart0
        nLines1 == IF lineStart0 < 1 THEN nLines0 + lineStart0 - 1 ELSE nLines0
        cached == files[path]
        made == makeLineOffsets(fs, path, plan, eofWithData)
        offsets == IF Len0(cached) = 0 THEN made.offsets ELSE cached
        nLines == IF lineStart - 1 + nLines1 >= Len0(offsets)
                  THEN Len0(offsets) - (lineStart - 1) - 1
                  ELSE nLines1
        start == offsets[lineStart - 1]
        end == offsets[lineStart - 1 + nLines]
        read == readAt(fs[path], end - start, start, got)
        quiet == [files |-> files, ran |-> FALSE, failed |-> FALSE]
        after == [files |-> [files EXCEPT ![path] = offsets],
                  ran |-> Len0(cached) = 0, failed |-> FALSE]
    IN  IF nLines1 <= 0 THEN [err |-> FALSE, buf |-> Empty0] @@ quiet
        ELSE IF Len0(cached) = 0 /\ made.err
        THEN [err |-> TRUE, buf |-> Empty0, files |-> files, ran |-> TRUE, failed |-> TRUE]
        ELSE IF lineStart - 1 >= Len0(offsets) THEN [err |-> FALSE, buf |-> Empty0] @@ after
        ELSE IF openFails(fs, path) THEN [err |-> TRUE, buf |-> Empty0] @@ after
        ELSE read @@ after

LcIdle ==
    /\ lc_fs = <<>>
    /\ lc_files = [p \in LcPaths |-> Empty0]
    /\ lc_runs = [p \in LcPaths |-> 0]
    /\ lc_failed = {}
    /\ lc_gets = -1
    /\ lc_arg = [path |-> "gone", lineStart |-> 0, nLines |-> 0]
    /\ lc_ret = [err |-> FALSE, buf |-> Empty0]

\* the source view starts over os.DirFS("/"), whose files implement
\* io.ReaderAt, with a zero LineCache
newLineCache ==
    /\ lc_gets = -1
    /\ \E file \in LcFiles :
        /\ file.kind = "ReaderAt"
        /\ lc_fs' = [p \in {"file"} |-> file]
    /\ lc_gets' = 0
    /\ UNCHANGED <<lc_files, lc_runs, lc_failed, lc_arg, lc_ret>>
    /\ Frame("linecache")

\* The ways the reads of a call of Get can go: how many bytes each read of
\* makeLineOffsets fills (when the call makes the offsets), whether the
\* reader reports EOF with the last bytes, and how many bytes the Read of
\* readAt gives (when the file is read with Read).
LcPlans(path) ==
    IF Len0(lc_files[path]) = 0 /\ ~openFails(lc_fs, path)
    THEN [0..(LcMaxFile - 2) -> 1..LcBlock]
    ELSE {[k \in 0..(LcMaxFile - 2) |-> LcBlock]}

LcEOFs(path) ==
    IF Len0(lc_files[path]) = 0 /\ ~openFails(lc_fs, path) THEN BOOLEAN ELSE {FALSE}

LcGots(path) ==
    IF ~openFails(lc_fs, path) /\ lc_fs[path].kind # "ReaderAt"
    THEN 1..LcMaxFile
    ELSE {LcMaxFile}

\* c.Get(fs, path, lineStart, nLines)
Get ==
    /\ lc_gets >= 0
    /\ lc_gets < LcMaxGets
    /\ \E path \in LcPaths, lineStart \in -1..(LcMaxFile + 1), nLines \in 0..(LcMaxFile + 1) :
       \E plan \in LcPlans(path), eofWithData \in LcEOFs(path), got \in LcGots(path) :
       \E r \in {LineCacheGet(lc_files, lc_fs, path, lineStart, nLines, plan, eofWithData, got)} :
            /\ lc_arg' = [path |-> path, lineStart |-> lineStart, nLines |-> nLines]
            /\ lc_ret' = [err |-> r.err, buf |-> r.buf]
            /\ lc_files' = r.files
            /\ lc_runs' = IF r.ran THEN [lc_runs EXCEPT ![path] = @ + 1] ELSE lc_runs
            /\ lc_failed' = IF r.failed THEN lc_failed \cup {path} ELSE lc_failed
    /\ lc_gets' = lc_gets + 1
    /\ UNCHANGED lc_fs
    /\ Frame("linecache")

\* C11: a failure to build the line offsets of a path is remembered: no
\* later Get for the path runs makeLineOffsets again.
C11_FailureRemembered ==
    \A p \in lc_failed : lc_runs[p] <= 1

(***************************************************************************)
(* symtab: zero-sized symbols and symbols without an address               *)
(***************************************************************************)
\* the positions of the address index whose symbol starts at or below addr
candidates(addr) ==
    {k \in DOMAIN t_addr : t_syms[t_addr[k]].Value <= addr}

\* position k of the address index holds a zero-sized symbol with an address
\* and no later position holds a symbol with an address
lastZeroSized(k) ==
    /\ t_syms[t_addr[k]].HasAddr
    /\ t_syms[t_addr[k]].Size = 0
    /\ \A j \in DOMAIN t_addr : j > k => ~t_syms[t_addr[j]].HasAddr

\* C12: an address no symbol covers, with one candidate at or below it that
\* is zero-sized and the last address-bearing symbol of the index, resolves
\* to no symbol: Addr returns (-1, false).
C12_LastZeroSizedUnresolved ==
    (/\ q_addr # -1
     /\ covering(q_addr) = {}
     /\ \E k \in DOMAIN t_addr : candidates(q_addr) = {k} /\ lastZeroSized(k))
        => q_res = [id |-> -1, ok |-> FALSE]


\* the address index without the symbols that have no address, in the order
\* the index has them
RECURSIVE hasAddrOnly(_, _)
hasAddrOnly(syms, taddr) ==
    IF Len0(taddr) = 0 THEN Empty0
    ELSE LET rest == hasAddrOnly(syms, Slice0(taddr, 1, Len0(taddr)))
         IN  IF syms[taddr[0]].HasAddr
             THEN Concat0([i \in {0} |-> taddr[0]], rest)
             ELSE rest

\* C13: symbols without an address take no part in resolving an address:
\* Addr returns what it returns on the table whose address index omits them.
C13_NoAddrSymbolsIgnored ==
    q_addr # -1 => q_res = TableAddr(t_syms, hasAddrOnly(t_syms, t_addr), q_addr)

(***************************************************************************)
(* elfSynthesizeSizes: a second run                                        *)
(***************************************************************************)
\* C14: size synthesis is idempotent: a run of elfSynthesizeSizes over
\* symbols it has already run over changes no symbol's size.
C14_SecondRunChangesNothing ==
    [][(f_runs >= 1 /\ f_runs' = f_runs + 1) => f_syms' = f_syms]_vars

\* a second run has been made over symbols of which the first run gave one a
\* size and left another zero-sized
C14_Witness ==
    /\ f_runs = 2
    /\ \E i \in DOMAIN f_syms : f_loaded[i].Size = 0 /\ f_syms[i].Size > 0
    /\ \E i \in elfAddrIdx(f_syms) : f_syms[i].Size = 0

(***************************************************************************)
(* PCData.Decode over arbitrary bytes                                      *)
(***************************************************************************)
\* the longest raw table
PcRawLen == 3

\* the bytes of a raw table: one-byte varints of value 0, -1, 1, -2 (uvarints
\* 0..3) and a continuation byte
PcRawBytes == {0, 1, 2, 3, 128}

\* a PCData over bytes that no linker need have written
rawPCData ==
    /\ p_state = "none"
    /\ \E pc \in {0, 16}, pcQuantum \in {1, 4}, raw \in Slices(PcRawBytes, PcRawLen) :
        p_data' = [pc |-> pc, raw |-> raw, pcQuantum |-> pcQuantum]
    /\ p_state' = "encoded"
    /\ UNCHANGED <<p_rows, p_tab>>
    /\ Frame("pcdata")

\* C15: the PCs of every table Decode returns, whatever the bytes, are
\* strictly increasing.
C15_PCsStrictlyIncreasing ==
    p_state = "decoded" =>
        \A i, j \in DOMAIN p_tab.PCs : i < j => p_tab.PCs[i] < p_tab.PCs[j]

(***************************************************************************)
(* cmd/objbrowse/web/ranges.tsx: Ranges (bigint ranges)                    *)
(***************************************************************************)
\* the largest address of a range
RgMaxAddr == 3
\* the most ranges in the array a Ranges is made from
RgMaxRanges == 3
\* the most ranges in the argument of anyIntersection
RgMaxQuery == 2

\* Range: { start: bigint, end: bigint }, start below end
RgRanges ==
    {r \in [start : 0..RgMaxAddr, end : 1..(RgMaxAddr + 1)] : r.start < r.end}

\* an array is in non-decreasing order of start
startSorted(ranges) ==
    \A i, j \in DOMAIN ranges : i < j => ranges[i].start <= ranges[j].start

\* the ranges of an array are pairwise disjoint
disjoint(ranges) ==
    \A i, j \in DOMAIN ranges :
        i # j => (ranges[i].end <= ranges[j].start \/ ranges[j].end <= ranges[i].start)

\* `a < b` of two Range objects: the relational operators convert an object
\* to a primitive with valueOf, which gives the object, and then toString,
\* which gives "[object Object]" for every plain object; the two strings are
\* compared
objectToString(r) == "[object Object]"

objectLess(a, b) ==
    IF objectToString(a) = objectToString(b) THEN FALSE ELSE TRUE

\* the comparator the constructor hands to sort
rangesCmp(a, b) ==
    IF objectLess(a, b) THEN -1 ELSE IF objectLess(b, a) THEN 1 ELSE 0

\* Array.prototype.sort with rangesCmp: a stable sort, here by insertion of
\* ranges[k] into the sorted ranges[0..k-1] behind every element it is not
\* less than
RECURSIVE rangesInsert(_, _, _)
rangesInsert(sorted, r, k) ==
    IF k > 0 /\ rangesCmp(r, sorted[k - 1]) < 0
    THEN rangesInsert(sorted, r, k - 1)
    ELSE Concat0(Append0(Slice0(sorted, 0, k), r), Slice0(sorted, k, Len0(sorted)))

RECURSIVE rangesSortFrom(_, _, _)
rangesSortFrom(ranges, k, sorted) ==
    IF k >= Len0(ranges) THEN sorted
    ELSE rangesSortFrom(ranges, k + 1, rangesInsert(sorted, ranges[k], Len0(sorted)))

rangesSort(ranges) == rangesSortFrom(ranges, 0, Empty0)

\* new Ranges(ranges, sorted) for an array ranges: this.ranges
RangesOf(ranges, sorted) ==
    IF sorted # "sorted" THEN rangesSort(ranges) ELSE ranges

\* Ranges.index(val): the binary search between lo and hi
RECURSIVE rangesIndexLoop(_, _, _, _)
rangesIndexLoop(ranges, val, lo, hi) ==
    IF lo < hi
    THEN LET mid == (lo + hi) \div 2
         IN  IF ranges[mid].end > val
             THEN rangesIndexLoop(ranges, val, lo, mid)
             ELSE rangesIndexLoop(ranges, val, mid + 1, hi)
    ELSE lo

rangesIndex(ranges, val) == rangesIndexLoop(ranges, val, 0, Len0(ranges))

\* overlaps that takes ranges that touch for overlapping
overlaps_touching(r1, r2) == r1.end >= r2.start /\ r1.start <= r2.end

overlaps(r1, r2) == r1.end > r2.start /\ r1.start < r2.end

contains(r, point) == r.start <= point /\ point < r.end

\* the result null of find
RgNull == [null |-> TRUE, start |-> 0, end |-> 0]

\* Ranges.find(point)
rangesFind(ranges, point) ==
    LET i == rangesIndex(ranges, point)
    IN  IF i < Len0(ranges) /\ contains(ranges[i], point)
        THEN [null |-> FALSE, start |-> ranges[i].start, end |-> ranges[i].end]
        ELSE RgNull

\* the loop of anyIntersection over rangeList(ranges), from its k-th range
RECURSIVE anyIntersectionFrom(_, _, _)
anyIntersectionFrom(ranges, query, k) ==
    IF k >= Len0(query) THEN FALSE
    ELSE LET i == rangesIndex(ranges, query[k].start)
         IN  IF i < Len0(ranges) /\ overlaps(query[k], ranges[i])
             THEN TRUE
             ELSE anyIntersectionFrom(ranges, query, k + 1)

\* Ranges.anyIntersection(ranges)
rangesAnyIntersection(ranges, query) ==
    IF Len0(ranges) = 0 THEN FALSE ELSE anyIntersectionFrom(ranges, query, 0)

RgIdle ==
    /\ rg_in = [ranges |-> Empty0, sorted |-> "undefined"]
    /\ rg_ranges = Empty0
    /\ rg_made = FALSE
    /\ rg_op = "none"
    /\ rg_arg = Empty0
    /\ rg_ret = RgNull

\* new Ranges(ranges) and new Ranges(ranges, "sorted"); the callers that say
\* "sorted" pass an array that is
newRanges ==
    /\ ~rg_made
    /\ \E ranges \in Slices(RgRanges, RgMaxRanges), sorted \in {"undefined", "sorted"} :
        /\ sorted = "sorted" => startSorted(ranges)
        /\ rg_in' = [ranges |-> ranges, sorted |-> sorted]
        /\ rg_ranges' = RangesOf(ranges, sorted)
    /\ rg_made' = TRUE
    /\ UNCHANGED <<rg_op, rg_arg, rg_ret>>
    /\ Frame("ranges")

\* this.find(point), the one call made of the Ranges
find ==
    /\ rg_made
    /\ rg_op = "none"
    /\ \E point \in 0..(RgMaxAddr + 1) :
        /\ rg_arg' = point
        /\ rg_ret' = rangesFind(rg_ranges, point)
    /\ rg_op' = "find"
    /\ UNCHANGED <<rg_in, rg_ranges, rg_made>>
    /\ Frame("ranges")

\* this.anyIntersection(ranges), the one call made of the Ranges
anyIntersection ==
    /\ rg_made
    /\ rg_op = "none"
    /\ \E query \in Slices(RgRanges, RgMaxQuery) :
        /\ rg_arg' = query
        /\ rg_ret' = rangesAnyIntersection(rg_ranges, query)
    /\ rg_op' = "anyIntersection"
    /\ UNCHANGED <<rg_in, rg_ranges, rg_made>>
    /\ Frame("ranges")

\* C18: a Ranges made from an array not said to be sorted holds its ranges
\* in non-decreasing order of start, whatever the order of the array.
C18_StoredSorted ==
    (rg_made /\ rg_in.sorted # "sorted") => startSorted(rg_ranges)

ImMaxRanges == 2

\* The addresses of the ranges: 0x8, 0x9, 0x10 and 0x11.  An AddrJS is
\* modelled by the number it stands for; every start and every end of a range
\* is an object of its own, as mkMap makes them.
ImAddrs == {8, 9, 16, 17}

ImRanges == {r \in [start : ImAddrs, end : ImAddrs] : r.start < r.end}

\* the hexadecimal digits of n, the first digit first
RECURSIVE hexDigits(_)
hexDigits(n) ==
    IF n < 16 THEN [i \in {0} |-> n]
    ELSE Append0(hexDigits(n \div 16), n % 16)

\* AddrJS.toString() of an address of one 28-bit digit: d[i].toString(16).
\* The characters 0-9a-f are in the order of the digits they stand for, so a
\* string is modelled by its digits.
AddrJStoString(n) == hexDigits(n)

\* s < t of two strings: the comparison by code units
RECURSIVE stringLess(_, _, _)
stringLess(s, t, k) ==
    IF k >= Len0(t) THEN FALSE
    ELSE IF k >= Len0(s) THEN TRUE
    ELSE IF s[k] # t[k] THEN s[k] < t[k]
    ELSE stringLess(s, t, k + 1)

\* a < b, a > b and a <= b of two AddrJS objects: AddrJS has no valueOf, so
\* the relational operators convert both to strings with toString and
\* compare the strings
addrLess(a, b) == stringLess(AddrJStoString(a), AddrJStoString(b), 0)

addrGreater(a, b) == addrLess(b, a)

addrLessEq(a, b) == ~addrLess(b, a)

\* this._digits of an address below 2^28
addrDigits(n) == IF n = 0 THEN Empty0 ELSE [i \in {0} |-> n]

\* AddrJS.compare
RECURSIVE compareFrom(_, _, _)
compareFrom(x, y, i) ==
    IF i < 0 THEN 0
    ELSE IF x[i] < y[i] THEN -1
    ELSE IF x[i] > y[i] THEN 1
    ELSE compareFrom(x, y, i - 1)

compare(a, b) ==
    LET x == addrDigits(a)
        y == addrDigits(b)
    IN  IF Len0(x) < Len0(y) THEN -1
        ELSE IF Len0(x) > Len0(y) THEN 1
        ELSE compareFrom(x, y, Len0(x) - 1)

\* ranges.sort((a, b) => a.start.compare(b.start)): a stable sort, here by
\* insertion
RECURSIVE intervalInsert(_, _, _)
intervalInsert(sorted, r, k) ==
    IF k > 0 /\ compare(r.start, sorted[k - 1].start) < 0
    THEN intervalInsert(sorted, r, k - 1)
    ELSE Concat0(Append0(Slice0(sorted, 0, k), r), Slice0(sorted, k, Len0(sorted)))

RECURSIVE intervalSortFrom(_, _, _)
intervalSortFrom(ranges, k, sorted) ==
    IF k >= Len0(ranges) THEN sorted
    ELSE intervalSortFrom(ranges, k + 1, intervalInsert(sorted, ranges[k], Len0(sorted)))

\* new IntervalMap(ranges): this.ranges
IntervalMapOf(ranges) == intervalSortFrom(ranges, 0, Empty0)

\* IntervalMap._find(val)
RECURSIVE intervalFindLoop(_, _, _, _)
intervalFindLoop(ranges, val, lo, hi) ==
    IF lo < hi
    THEN LET mid == (lo + hi) \div 2
         IN  IF addrGreater(ranges[mid].end, val)
             THEN intervalFindLoop(ranges, val, lo, mid)
             ELSE intervalFindLoop(ranges, val, mid + 1, hi)
    ELSE lo

\* the result null of get
ImNull == [null |-> TRUE, start |-> 0, end |-> 0]

\* IntervalMap.get(val)
intervalGet(ranges, val) ==
    LET i == intervalFindLoop(ranges, val, 0, Len0(ranges))
    IN  IF i < Len0(ranges) /\ addrLessEq(ranges[i].start, val)
        THEN [null |-> FALSE, start |-> ranges[i].start, end |-> ranges[i].end]
        ELSE ImNull

\* IntervalMap.intersection(r1, r2); endOf says which range's end object the
\* result's end is
intersection(r1, r2) ==
    LET start == IF compare(r1.start, r2.start) < 0 THEN r2.start ELSE r1.start
        endOf == IF compare(r1.end, r2.end) > 0 THEN 2 ELSE 1
        end == IF endOf = 2 THEN r2.end ELSE r1.end
    IN  IF compare(start, end) < 0
        THEN [null |-> FALSE, start |-> start, end |-> end, endOf |-> endOf]
        ELSE [null |-> TRUE, start |-> 0, end |-> 0, endOf |-> 0]

\* the loop of intersectJoin from i and j: the rows pushed to out and the
\* calls of fn.  `r1.end == rout.end` compares two objects: it is true when
\* rout.end is the object r1.end, not when it is an equal address.
RECURSIVE intersectJoinLoop(_, _, _, _, _, _)
intersectJoinLoop(a, b, i, j, out, calls) ==
    IF i < Len0(a) /\ j < Len0(b)
    THEN LET r1 == a[i]
             r2 == b[j]
             rout == intersection(r1, r2)
             row == [start |-> rout.start, end |-> rout.end]
         IN  IF ~rout.null
             THEN intersectJoinLoop(a, b,
                      IF rout.endOf = 1 THEN i + 1 ELSE i,
                      IF rout.endOf = 2 THEN j + 1 ELSE j,
                      Append0(out, row),
                      Append0(calls, [i |-> i, j |-> j, rout |-> row]))
             ELSE IF addrLess(a[i].start, b[j].start)
                  THEN intersectJoinLoop(a, b, i + 1, j, out, calls)
                  ELSE intersectJoinLoop(a, b, i, j + 1, out, calls)
    ELSE [out |-> IntervalMapOf(out), calls |-> calls]

\* this.intersectJoin(b, fn)
intersectJoin(a, b) == intersectJoinLoop(a, b, 0, 0, Empty0, Empty0)

ImIdle ==
    /\ im_a = Empty0
    /\ im_b = Empty0
    /\ im_made = FALSE
    /\ im_op = "none"
    /\ im_arg = 0
    /\ im_ret = ImNull

\* mkMap(info.SPOff) and mkMap(info.Indexes): two IntervalMaps
mkMap ==
    /\ ~im_made
    /\ \E a \in Slices(ImRanges, ImMaxRanges), b \in Slices(ImRanges, ImMaxRanges) :
        /\ im_a' = IntervalMapOf(a)
        /\ im_b' = IntervalMapOf(b)
    /\ im_made' = TRUE
    /\ UNCHANGED <<im_op, im_arg, im_ret>>
    /\ Frame("intervalmap")

\* this.get(val) on the first map, the one call made
get ==
    /\ im_made
    /\ im_op = "none"
    /\ \E val \in ImAddrs :
        /\ im_arg' = val
        /\ im_ret' = intervalGet(im_a, val)
    /\ im_op' = "get"
    /\ UNCHANGED <<im_a, im_b, im_made>>
    /\ Frame("intervalmap")

\* spOff.intersectJoin(indexes, fn), the one call made
join ==
    /\ im_made
    /\ im_op = "none"
    /\ im_ret' = intersectJoin(im_a, im_b)
    /\ im_op' = "intersectJoin"
    /\ UNCHANGED <<im_a, im_b, im_made, im_arg>>
    /\ Frame("intervalmap")

\* the addresses of the union of the ranges of an array
covered(ranges) ==
    {p \in 0..17 : \E i \in DOMAIN ranges : ranges[i].start <= p /\ p < ranges[i].end}

\* the pairs (i, j) of a range of a and a range of b that overlap
overlapping(a, b) ==
    {ij \in (DOMAIN a) \X (DOMAIN b) :
        a[ij[1]].end > b[ij[2]].start /\ a[ij[1]].start < b[ij[2]].end}

\* the intersection of two ranges that overlap
meet(r1, r2) ==
    [start |-> IF r1.start < r2.start THEN r2.start ELSE r1.start,
     end |-> IF r1.end > r2.end THEN r2.end ELSE r1.end]

\* C16: on two maps sorted by start and pairwise disjoint, intersectJoin
\* returns sorted, pairwise disjoint rows whose union is the intersection of
\* the unions of the maps, and calls fn once for each overlapping pair, with
\* the intersection of the pair.
C16_JoinIsIntersection ==
    (/\ im_op = "intersectJoin"
     /\ startSorted(im_a) /\ disjoint(im_a)
     /\ startSorted(im_b) /\ disjoint(im_b)) =>
        /\ startSorted(im_ret.out) /\ disjoint(im_ret.out)
        /\ covered(im_ret.out) = covered(im_a) \cap covered(im_b)
        /\ \A ij \in overlapping(im_a, im_b) :
            Cardinality({k \in DOMAIN im_ret.calls :
                im_ret.calls[k].i = ij[1] /\ im_ret.calls[k].j = ij[2]}) = 1
        /\ \A k \in DOMAIN im_ret.calls :
            /\ <<im_ret.calls[k].i, im_ret.calls[k].j>> \in overlapping(im_a, im_b)
            /\ im_ret.calls[k].rout = meet(im_a[im_ret.calls[k].i], im_b[im_ret.calls[k].j])

\* C17: on a map sorted by start and pairwise disjoint, the lookup of a point
\* returns the range with start <= point < end when there is one, and null
\* for a point outside every range.
C17_GetFindsContaining ==
    (im_op = "get" /\ startSorted(im_a) /\ disjoint(im_a)) =>
        IF \E i \in DOMAIN im_a : im_a[i].start <= im_arg /\ im_arg < im_a[i].end
        THEN /\ ~im_ret.null
             /\ im_ret.start <= im_arg /\ im_arg < im_ret.end
             /\ \E i \in DOMAIN im_a : im_a[i] = [start |-> im_ret.start, end |-> im_ret.end]
        ELSE im_ret.null

(***************************************************************************)
(* LineCache.Get: the lines returned                                       *)
(***************************************************************************)
\* the offsets of the line breaks of data
lineBreaks(data) == {i \in DOMAIN data : data[i] = LcNL}

\* the number of lines of data: a last line need not end in a line break
lineCount(data) ==
    Cardinality(lineBreaks(data))
        + (IF Len0(data) > 0 /\ data[Len0(data) - 1] # LcNL THEN 1 ELSE 0)

\* where line k of data begins, for k in 1..N+1: behind the (k-1)-th line
\* break, and at the end of data for k = N+1
lineBegin(data, k) ==
    IF k = 1 THEN 0
    ELSE IF k - 1 <= Cardinality(lineBreaks(data))
    THEN 1 + CHOOSE i \in lineBreaks(data) :
                 Cardinality({j \in lineBreaks(data) : j <= i}) = k - 1
    ELSE Len0(data)

\* the bytes of the lines of [lineStart, lineStart+nLines) that data has
linesOf(data, lineStart, nLines) ==
    LET lo == IF lineStart < 1 THEN 1 ELSE lineStart
        hi == IF lineStart + nLines > lineCount(data) + 1
              THEN lineCount(data) + 1
              ELSE lineStart + nLines
    IN  IF lo >= hi THEN Empty0
        ELSE Slice0(data, lineBegin(data, lo), lineBegin(data, hi))

\* C20: for a file of N lines, Get returns, with a nil error, the bytes of
\* the lines in [lineStart, lineStart+nLines) that lie in [1, N], and the
\* empty slice when there are none, however the file came in read blocks.
C20_GetReturnsLines ==
    (/\ lc_gets >= 1
     /\ lc_arg.path = "file"
     /\ lc_fs["file"].readErrAt = -1) =>
        /\ ~lc_ret.err
        /\ lc_ret.buf = linesOf(lc_fs["file"].data, lc_arg.lineStart, lc_arg.nLines)

\* Get has returned the second and the third line of a file too long for
\* one read block, in answer to a request for more lines than the file has
C20_Witness ==
    /\ lc_gets >= 1
    /\ lc_arg.path = "file"
    /\ lc_fs["file"].readErrAt = -1
    /\ Len0(lc_fs["file"].data) > LcBlock
    /\ lineCount(lc_fs["file"].data) = 3
    /\ lc_arg.lineStart = 2
    /\ lc_arg.nLines > 2
    /\ ~lc_ret.err
    /\ Len0(lc_ret.buf) = 2

(***************************************************************************)
(* cmd/objbrowse/main.go and objbrowse/main.go: startup                    *)
(***************************************************************************)
\* the most symbols of an object file
MainMaxSyms == 3
\* the most queries a model run serves
MainMaxQueries == 4

\* obj.Open(r): the file when openElf or openPE takes it, nil and an error
\* otherwise.  A file os.Open failed to open reads with an error, so neither
\* takes it.
objOpen(opened, format) ==
    IF opened /\ format \in {"elf", "pe"} THEN format ELSE "nil"

MainIdle ==
    /\ m_prog = "none"
    /\ m_pc = "start"
    /\ m_exit = "running"
    /\ m_objF = "nil"
    /\ m_nsyms = 0
    /\ m_ln = FALSE
    /\ m_symtab = FALSE
    /\ m_queries = 0

\* cmd/objbrowse main, "Open the object file.": both errors are printed to
\* stderr and main goes on
mainOpen ==
    /\ m_pc = "start" /\ m_prog = "none"
    /\ \E opened \in BOOLEAN, format \in {"elf", "pe", "unknown"}, n \in 0..MainMaxSyms :
        /\ m_objF' = objOpen(opened, format)
        /\ m_nsyms' = IF objOpen(opened, format) = "nil" THEN 0 ELSE n
    /\ m_prog' = "cmd"
    /\ m_pc' = "loaded"
    /\ UNCHANGED <<m_exit, m_ln, m_symtab, m_queries>>
    /\ Frame("main")

\* cmd/objbrowse main from the static files to addView: newServer listens,
\* allocates the server and calls f.NumSyms(), a call on a nil interface when
\* obj.Open failed; a failure to listen ends main with log.Fatalf
mainNewServer ==
    /\ m_prog = "cmd" /\ m_pc = "loaded" /\ m_exit = "running"
    /\ \E listens \in BOOLEAN :
        IF ~listens
        THEN /\ m_exit' = "fatal"
             /\ UNCHANGED <<m_pc, m_ln, m_symtab>>
        ELSE IF m_objF = "nil"
        THEN /\ m_ln' = TRUE
             /\ m_exit' = "panic"
             /\ UNCHANGED <<m_pc, m_symtab>>
        ELSE /\ m_ln' = TRUE
             /\ m_symtab' = TRUE
             /\ m_pc' = "built"
             /\ UNCHANGED m_exit
    /\ UNCHANGED <<m_prog, m_objF, m_nsyms, m_queries>>
    /\ Frame("main")

\* server.serve(): http.Serve accepts connections
mainServe ==
    /\ m_prog = "cmd" /\ m_pc = "built" /\ m_exit = "running"
    /\ m_pc' = "serving"
    /\ UNCHANGED <<m_prog, m_exit, m_objF, m_nsyms, m_ln, m_symtab, m_queries>>
    /\ Frame("main")

\* a request is served (serveIndex, serveSym; httpMain, httpSym), or
\* http.Serve fails and main ends with log.Fatalf
serveQuery ==
    /\ m_pc = "serving" /\ m_exit = "running"
    /\ \/ /\ m_queries < MainMaxQueries
          /\ m_queries' = m_queries + 1
          /\ UNCHANGED m_exit
       \/ /\ m_exit' = "fatal"
          /\ UNCHANGED m_queries
    /\ UNCHANGED <<m_prog, m_pc, m_objF, m_nsyms, m_ln, m_symtab>>
    /\ Frame("main")

\* objbrowse main: open().  Every error ends the program with log.Fatal;
\* otherwise the symbol table is built.
legacyOpen ==
    /\ m_pc = "start" /\ m_prog = "none"
    /\ \E opened \in BOOLEAN, format \in {"elf", "pe", "unknown"}, n \in 0..MainMaxSyms,
          symbolsFail \in BOOLEAN :
        LET bin == objOpen(opened, format)
        IN  /\ m_objF' = bin
            /\ m_nsyms' = IF bin = "nil" THEN 0 ELSE n
            /\ IF bin = "nil" \/ symbolsFail
               THEN /\ m_exit' = "fatal"
                    /\ UNCHANGED <<m_pc, m_symtab>>
               ELSE /\ m_symtab' = TRUE
                    /\ m_pc' = "built"
                    /\ UNCHANGED m_exit
    /\ m_prog' = "legacy"
    /\ UNCHANGED <<m_ln, m_queries>>
    /\ Frame("main")

\* objbrowse main: state.serve() up to http.Serve
legacyServe ==
    /\ m_prog = "legacy" /\ m_pc = "built" /\ m_exit = "running"
    /\ \E listens \in BOOLEAN :
        IF listens
        THEN /\ m_ln' = TRUE
             /\ m_pc' = "serving"
             /\ UNCHANGED m_exit
        ELSE /\ m_exit' = "fatal"
             /\ UNCHANGED <<m_pc, m_ln>>
    /\ UNCHANGED <<m_prog, m_objF, m_nsyms, m_symtab, m_queries>>
    /\ Frame("main")

\* the object file failed to load: it could not be opened, or obj.Open did
\* not recognise its format
loadFailed == m_prog # "none" /\ m_objF = "nil"

\* C21: when the object file fails to load, the program stops before the
\* server is built: it runs no further, opens no listening socket, builds
\* no symbol table and serves no query.
C21_LoadFailureStops ==
    loadFailed =>
        /\ m_exit # "running"
        /\ ~m_ln
        /\ ~m_symtab
        /\ m_queries = 0

(***************************************************************************)
(* History-backed state: cmd/objbrowse/web/hooks.tsx.  dispatch hands an   *)
(* updater to React; the updater runs the reducer and, when the value       *)
(* changes, stores the encoded value and queues a commit; the commit runs   *)
(* from a zero-delay timer.                                                 *)
(***************************************************************************)
HsMaxCommits == 2
HsMaxBatch == 3

HsValues == {0, 1}
PushKinds == {"undefined", "replace", "push"}

\* useState's reducer: the action is the new value.
reducer(old, action) == action

\* The encoder EntityColumn passes: v => v.
encode(v) == v

queueCommit_first(cq, kind0) ==
    LET kind == IF kind0 = "undefined" THEN "replace" ELSE kind0
    IN  IF cq = "null"
        THEN [commitQueued |-> kind, setTimeout |-> 1]
        ELSE [commitQueued |-> cq, setTimeout |-> 0]

queueCommit(cq, kind0) ==
    LET kind == IF kind0 = "undefined" THEN "replace" ELSE kind0
    IN  IF cq = "null"
        THEN [commitQueued |-> kind, setTimeout |-> 1]
        ELSE IF cq = "replace" /\ kind = "push"
             THEN [commitQueued |-> "push", setTimeout |-> 0]
             ELSE [commitQueued |-> cq, setTimeout |-> 0]

HsIdle ==
    /\ hs_value = 0
    /\ hs_updaters = <<>>
    /\ commitQueued = "null"
    /\ hs_timer = 0
    /\ pendingState = 0
    /\ hs_history = <<>>
    /\ hs_dispatched = <<>>
    /\ hs_applied = <<>>
    /\ hs_batches = <<>>

\* dispatch(action, kind): setValue(old => ...) hands the updater to React.
dispatch ==
    /\ Len(hs_history) < HsMaxCommits
    /\ Len(hs_dispatched) < HsMaxBatch
    /\ \E action \in HsValues, kind \in PushKinds :
        /\ hs_updaters' = Append(hs_updaters, [action |-> action, kind |-> kind])
        /\ hs_dispatched' = Append(hs_dispatched, kind)
    /\ UNCHANGED <<hs_value, commitQueued, hs_timer, pendingState, hs_history,
                   hs_applied, hs_batches>>
    /\ Frame("history")

\* React runs the oldest updater: at once, or when it next renders.
runUpdater ==
    /\ hs_updaters # <<>>
    /\ LET u == Head(hs_updaters)
           v == reducer(hs_value, u.action)
       IN  /\ hs_updaters' = Tail(hs_updaters)
           /\ IF v = hs_value
              THEN UNCHANGED <<hs_value, commitQueued, hs_timer, pendingState,
                               hs_applied>>
              ELSE \E q \in {queueCommit(commitQueued, u.kind)} :
                    /\ hs_value' = v
                    /\ pendingState' = encode(v)
                    /\ commitQueued' = q.commitQueued
                    /\ hs_timer' = hs_timer + q.setTimeout
                    /\ hs_applied' = Append(hs_applied, u.kind)
    /\ UNCHANGED <<hs_history, hs_dispatched, hs_batches>>
    /\ Frame("history")

\* The timer fires.
commitState ==
    /\ hs_timer > 0
    /\ hs_timer' = hs_timer - 1
    /\ hs_history' = Append(hs_history,
            [op |-> IF commitQueued = "push" THEN "pushState" ELSE "replaceState",
             state |-> pendingState])
    /\ commitQueued' = "null"
    /\ hs_batches' = Append(hs_batches, hs_applied)
    /\ hs_applied' = <<>>
    /\ hs_dispatched' = <<>>
    /\ UNCHANGED <<hs_value, hs_updaters, pendingState>>
    /\ Frame("history")

\* The kind a batch of updates asks for.
batchKind(batch) ==
    IF \E i \in DOMAIN batch : batch[i] = "push" THEN "push" ELSE "replace"

batchOp(batch) ==
    IF batchKind(batch) = "push" THEN "pushState" ELSE "replaceState"

RelMaxSym == 2

\* the relocations of the files Get is checked on: elf.Rela64 with the
\* symbol index of Info (elf.R_SYM64)
RelSymRelas ==
    {[Off |-> o, Type |-> "R_X86_64_8", Sym |-> s] : o \in {16, 17}, s \in 0..RelMaxSym}

\* Get takes the base SymID of the first applicable table for every entry
elfRelocsGet_oneBase(rs, i) ==
    LET rela == rs.relas[i]
    IN  [Offset |-> rela.Off,
         Size |-> elfRelocTypes(rela.Type),
         Symbol |-> IF rela.Sym # 0 THEN rs.baseSymID + rela.Sym - 1 ELSE -1]

\* elfRelocs.Get(i, r): the Reloc it stores in *r.  i is inside the view,
\* so a baseSymIDs that is not nil is not empty either.
elfRelocsGet(rs, i) ==
    LET rela == rs.relas[i]
    IN  [Offset |-> rela.Off,
         Size |-> elfRelocTypes(rela.Type),
         Symbol |-> IF rela.Sym # 0
                    THEN IF Len0(rs.baseSymIDs) # 0
                         THEN rs.baseSymIDs[i] + rela.Sym - 1
                         ELSE rs.baseSymID + rela.Sym - 1
                    ELSE -1]

RelGetIdle == r_got = [kind |-> "none"]

\* a caller of sectRelocs reads entry i of the view it got
relocsGet(t) ==
    /\ r_ret[t].kind = "ok"
    /\ \E i \in DOMAIN r_ret[t].relas :
        r_got' = [kind |-> "got", i |-> i, rela |-> r_ret[t].relas[i],
                  reloc |-> elfRelocsGet(r_ret[t], i)]
    /\ Frame("relget")

\* how often the entry (rela, base) is in the relocations that table k has
\* for the section
relSrcCount(k, rela, base) ==
    IF r_srcs[k].err \/ r_srcs[k].baseSymID # base THEN 0
    ELSE Cardinality({j \in DOMAIN r_srcs[k].data :
            /\ r_srcs[k].data[j] = rela
            /\ relSect.Addr <= rela.Off
            /\ rela.Off < relSect.Addr + relSect.Size})

\* the base SymID stored with entry i of the loaded relocations
relBaseAt(i) == IF Len0(r_baseSymIDs) # 0 THEN r_baseSymIDs[i] ELSE r_baseSymID

\* how often the entry (rela, base) is in the loaded relocations
relLoadedCount(rela, base) ==
    Cardinality({i \in DOMAIN r_relas : r_relas[i] = rela /\ relBaseAt(i) = base})

\* C23: once the relocations of a section are loaded without error they
\* are in non-decreasing order of Off and hold every entry of every table
\* with that table's base SymID, as often as the tables hold it; a returned
\* view is a run of that array with the same pairing; and Get(i) on a view
\* reports the base of a table holding the entry + symbol index - 1, and -1
\* when the symbol index is 0.
C23_MergedPairedSorted ==
    (r_once.done /\ ~r_err /\ Len0(r_srcs) = 2) =>
        /\ \A i, j \in DOMAIN r_relas : i < j => r_relas[i].Off <= r_relas[j].Off
        /\ Len0(r_baseSymIDs) \in {0, Len0(r_relas)}
        /\ \A rela \in RelSymRelas, base \in {r_srcs[0].baseSymID, r_srcs[1].baseSymID} :
            relLoadedCount(rela, base) =
                relSrcCount(0, rela, base) + relSrcCount(1, rela, base)
        /\ \A t \in 1..RelThreads :
            r_ret[t].kind = "ok" =>
                \E s \in 0..Len0(r_relas) :
                    \A i \in DOMAIN r_ret[t].relas :
                        /\ s + i < Len0(r_relas)
                        /\ r_ret[t].relas[i] = r_relas[s + i]
                        /\ (IF Len0(r_ret[t].baseSymIDs) # 0
                            THEN r_ret[t].baseSymIDs[i]
                            ELSE r_ret[t].baseSymID) = relBaseAt(s + i)
        /\ r_got.kind = "got" =>
            LET rela == r_got.rela
            IN  /\ r_got.reloc.Offset = rela.Off
                /\ rela.Sym = 0 => r_got.reloc.Symbol = -1
                /\ rela.Sym # 0 =>
                    \E k \in DOMAIN r_srcs :
                        /\ relSrcCount(k, rela, r_srcs[k].baseSymID) > 0
                        /\ r_got.reloc.Symbol = r_srcs[k].baseSymID + rela.Sym - 1

\* Get was called on the second entry of a view of the merged array of two
\* tables, an entry of the dynamic table that the sort moved in front of
\* one of the static table
C23_Witness ==
    /\ r_got.kind = "got"
    /\ Len0(r_baseSymIDs) >= 3
    /\ r_got.i = 1
    /\ r_got.reloc.Symbol = 10 + 2 - 1
    /\ \E i \in DOMAIN r_baseSymIDs :
        i + 1 < Len0(r_baseSymIDs) /\ r_baseSymIDs[i] = 10 /\ r_baseSymIDs[i + 1] = 0

(***************************************************************************)
(* internal/src/linecache.go: LineCache.Get statement by statement, with   *)
(* several goroutines calling it on one LineCache                          *)
(***************************************************************************)
LkThreads == 2
LkMaxCalls == 2

\* the file system of the callers: one file of three lines, read in blocks
LkFS == [p \in {"file"} |->
            [data |-> [i \in 0..2 |-> IF i = 1 THEN LcNL ELSE 120],
             kind |-> "ReaderAt", readErrAt |-> -1]]

LkPlan == [k \in 0..(LcMaxFile - 2) |-> LcBlock]

\* the deferred function unlocks whatever locked says
deferredUnlocks_always(locked) == TRUE

\* "defer func() { if locked { c.lock.Unlock() } }()"
deferredUnlocks(locked) == locked

LkIdle ==
    /\ lk_mu = 0
    /\ lk_fault = FALSE
    /\ lk_files = [p \in LcPaths |-> Empty0]
    /\ lk_pc = [t \in 1..LkThreads |-> "idle"]
    /\ lk_arg = [t \in 1..LkThreads |-> [path |-> "gone", lineStart |-> 0, nLines |-> 0]]
    /\ lk_locked = [t \in 1..LkThreads |-> FALSE]
    /\ lk_took = [t \in 1..LkThreads |-> FALSE]
    /\ lk_unlocks = [t \in 1..LkThreads |-> 0]
    /\ lk_ncalls = [t \in 1..LkThreads |-> 0]
    /\ lk_ret = [t \in 1..LkThreads |-> [err |-> FALSE, buf |-> Empty0]]

\* c.lock.Unlock() by t: unlocking an unlocked mutex is a fatal error; a
\* locked one is released whoever locked it
lkUnlocked(t) ==
    /\ IF lk_mu = 0
       THEN lk_fault' = TRUE /\ lk_mu' = lk_mu
       ELSE lk_mu' = 0 /\ lk_fault' = lk_fault
    /\ lk_unlocks' = [lk_unlocks EXCEPT ![t] = @ + 1]

\* lines 27-34: Get is called; without lines to read it returns at once
lkCall(t) ==
    /\ lk_pc[t] = "idle"
    /\ lk_ncalls[t] < LkMaxCalls
    /\ \E path \in LcPaths, lineStart \in 0..2, nLines \in 0..2 :
        LET nLines1 == IF lineStart < 1 THEN nLines + lineStart - 1 ELSE nLines
        IN  /\ lk_arg' = [lk_arg EXCEPT ![t] =
                    [path |-> path, lineStart |-> lineStart, nLines |-> nLines]]
            /\ lk_pc' = [lk_pc EXCEPT ![t] = IF nLines1 <= 0 THEN "idle" ELSE "lock"]
    /\ lk_ncalls' = [lk_ncalls EXCEPT ![t] = @ + 1]
    /\ lk_ret' = [lk_ret EXCEPT ![t] = [err |-> FALSE, buf |-> Empty0]]
    /\ lk_locked' = [lk_locked EXCEPT ![t] = FALSE]
    /\ lk_took' = [lk_took EXCEPT ![t] = FALSE]
    /\ lk_unlocks' = [lk_unlocks EXCEPT ![t] = 0]
    /\ UNCHANGED <<lk_mu, lk_fault, lk_files>>
    /\ Frame("linelock")

\* lines 36-42: c.lock.Lock(); locked := true; the deferred function
lkLock(t) ==
    /\ lk_pc[t] = "lock"
    /\ lk_mu = 0
    /\ lk_mu' = t
    /\ lk_locked' = [lk_locked EXCEPT ![t] = TRUE]
    /\ lk_took' = [lk_took EXCEPT ![t] = TRUE]
    /\ lk_pc' = [lk_pc EXCEPT ![t] = "lookup"]
    /\ UNCHANGED <<lk_fault, lk_files, lk_arg, lk_unlocks, lk_ncalls, lk_ret>>
    /\ Frame("linelock")

\* lines 44-50: offsets := c.files[path]
lkLookup(t) ==
    /\ lk_pc[t] = "lookup"
    /\ lk_pc' = [lk_pc EXCEPT ![t] =
            IF Len0(lk_files[lk_arg[t].path]) = 0 THEN "build" ELSE "unlock"]
    /\ UNCHANGED <<lk_mu, lk_fault, lk_files, lk_arg, lk_locked, lk_took,
                   lk_unlocks, lk_ncalls, lk_ret>>
    /\ Frame("linelock")

\* lines 51-57: makeLineOffsets; on an error Get returns it
lkBuild(t) ==
    /\ lk_pc[t] = "build"
    /\ \E made \in {makeLineOffsets(LkFS, lk_arg[t].path, LkPlan, FALSE)} :
        IF made.err
        THEN /\ lk_ret' = [lk_ret EXCEPT ![t] = [err |-> TRUE, buf |-> Empty0]]
             /\ lk_pc' = [lk_pc EXCEPT ![t] = "deferred"]
             /\ lk_files' = lk_files
        ELSE /\ lk_files' = [lk_files EXCEPT ![lk_arg[t].path] = made.offsets]
             /\ lk_pc' = [lk_pc EXCEPT ![t] = "unlock"]
             /\ lk_ret' = lk_ret
    /\ UNCHANGED <<lk_mu, lk_fault, lk_arg, lk_locked, lk_took, lk_unlocks, lk_ncalls>>
    /\ Frame("linelock")

\* lines 58-59: c.lock.Unlock(); locked = false
lkUnlock(t) ==
    /\ lk_pc[t] = "unlock"
    /\ lkUnlocked(t)
    /\ lk_locked' = [lk_locked EXCEPT ![t] = FALSE]
    /\ lk_pc' = [lk_pc EXCEPT ![t] = "read"]
    /\ UNCHANGED <<lk_files, lk_arg, lk_took, lk_ncalls, lk_ret>>
    /\ Frame("linelock")

\* lines 61-80: the lines are read from the file
lkRead(t) ==
    /\ lk_pc[t] = "read"
    /\ \E r \in {LineCacheGet(lk_files, LkFS, lk_arg[t].path, lk_arg[t].lineStart,
                              lk_arg[t].nLines, LkPlan, FALSE, LcMaxFile)} :
        lk_ret' = [lk_ret EXCEPT ![t] = [err |-> r.err, buf |-> r.buf]]
    /\ lk_pc' = [lk_pc EXCEPT ![t] = "deferred"]
    /\ UNCHANGED <<lk_mu, lk_fault, lk_files, lk_arg, lk_locked, lk_took,
                   lk_unlocks, lk_ncalls>>
    /\ Frame("linelock")

\* lines 38-42: the deferred function runs as Get returns
lkReturn(t) ==
    /\ lk_pc[t] = "deferred"
    /\ IF deferredUnlocks(lk_locked[t])
       THEN lkUnlocked(t)
       ELSE UNCHANGED <<lk_mu, lk_fault, lk_unlocks>>
    /\ lk_pc' = [lk_pc EXCEPT ![t] = "idle"]
    /\ UNCHANGED <<lk_files, lk_arg, lk_locked, lk_took, lk_ncalls, lk_ret>>
    /\ Frame("linelock")

\* C24: the mutex is held by a caller only between its Lock and the end of
\* its lookup or build of the offsets; it is not held by a caller that
\* reads lines; and a call that locked it has unlocked it exactly once when
\* it returns, whether the offsets were cached, built, or failed to build.
C24_LockOnlyAroundOffsets ==
    /\ ~lk_fault
    /\ \A t \in 1..LkThreads :
        /\ lk_pc[t] \in {"lookup", "build", "unlock"} => lk_mu = t
        /\ lk_mu = t => (lk_pc[t] \in {"lookup", "build", "unlock"}
                         \/ (lk_pc[t] = "deferred" /\ lk_locked[t] /\ lk_ret[t].err))
        /\ lk_pc[t] = "read" => (lk_mu # t /\ ~lk_locked[t] /\ lk_unlocks[t] = 1)
        /\ lk_pc[t] = "idle" => (lk_mu # t /\ lk_unlocks[t] = (IF lk_took[t] THEN 1 ELSE 0))

\* in its second call a caller reads lines of a file whose offsets were
\* cached, while another caller holds the mutex to build the offsets of a
\* path that cannot be opened
C24_Witness ==
    \E t, u \in 1..LkThreads :
        /\ lk_pc[t] = "read"
        /\ lk_ncalls[t] = 2
        /\ lk_unlocks[t] = 1
        /\ lk_pc[u] = "build"
        /\ lk_arg[u].path = "gone"
        /\ lk_mu = u

(***************************************************************************)
(* internal/obj/pe.go: openPE and peSynthesizeSizes                        *)
(***************************************************************************)
PeMaxSyms == 3
PeMaxValue == 2
PeMaxSect == 2

\* pe.Symbol: SectionNumber is an int16 (0 undefined, -1 absolute), Value
\* an offset in the section
PeSyms ==
    {[SectionNumber |-> n, Value |-> v] : n \in -1..PeMaxSect, v \in 0..PeMaxValue}

\* the section tables: VirtualSize of each section; the shorter one leaves
\* section number 2 without a section
PeSects ==
    {[i \in 0..0 |-> [VirtualSize |-> 2]],
     [i \in 0..1 |-> [VirtualSize |-> IF i = 0 THEN 2 ELSE 3]]}

\* the less function of peSynthesizeSizes's sort
peLess(si, sj) ==
    IF si.SectionNumber # sj.SectionNumber
    THEN si.SectionNumber < sj.SectionNumber
    ELSE si.Value < sj.Value

\* the orders sort.Slice may leave addr in
peSortedAddr(syms) ==
    {q \in Perms(Len0(syms)) :
        \A i, j \in DOMAIN syms : i < j => ~peLess(syms[q[j]], syms[q[i]])}

\* "Assign addresses to symbols.": the loop over addr from i on; indexing
\* addr past its end panics
RECURSIVE peAssignFrom(_, _, _, _, _)
peAssignFrom(syms, sects, addr, i, sizes) ==
    IF i >= Len0(addr) THEN [kind |-> "ok", sizes |-> sizes]
    ELSE LET symi == addr[i]
             sym == syms[symi]
         IN  IF sym.SectionNumber <= 0
             THEN peAssignFrom(syms, sects, addr, i + 1, sizes)
             ELSE IF i = Len0(addr)
             THEN [kind |-> "unreachable", sizes |-> sizes]
             ELSE IF i + 1 >= Len0(addr)
             THEN [kind |-> "panic", sizes |-> sizes]
             ELSE IF sym.SectionNumber # syms[addr[i + 1]].SectionNumber
             THEN peAssignFrom(syms, sects, addr, i + 1,
                    IF sym.SectionNumber - 1 < Len0(sects)
                       /\ sym.Value < sects[sym.SectionNumber - 1].VirtualSize
                    THEN [sizes EXCEPT ![symi] =
                            sects[sym.SectionNumber - 1].VirtualSize - sym.Value]
                    ELSE sizes)
             ELSE peAssignFrom(syms, sects, addr, i + 1,
                    [sizes EXCEPT ![symi] = syms[addr[i + 1]].Value - sym.Value])

\* peSynthesizeSizes(syms, sects): the outcomes it may have
peSynthesizeSizes(syms, sects) ==
    {peAssignFrom(syms, sects, addr, 0, [i \in DOMAIN syms |-> 0]) :
        addr \in peSortedAddr(syms)}

PeIdle ==
    /\ pe_syms = Empty0
    /\ pe_sects = Empty0
    /\ pe_pc = "start"
    /\ pe_ret = [kind |-> "none", sizes |-> Empty0]

\* openPE, line 26: pe.NewFile has parsed the file
peNewFile ==
    /\ pe_pc = "start"
    /\ pe_syms' \in Slices(PeSyms, PeMaxSyms)
    /\ pe_sects' \in PeSects
    /\ pe_pc' = "parsed"
    /\ UNCHANGED pe_ret
    /\ Frame("pe")

\* openPE, lines 41-43: "Assign symbol sizes."
openPE ==
    /\ pe_pc = "parsed"
    /\ pe_ret' \in peSynthesizeSizes(pe_syms, pe_sects)
    /\ pe_pc' = "opened"
    /\ UNCHANGED <<pe_syms, pe_sects>>
    /\ Frame("pe")

\* symbol i is the only last symbol of its section: it is in a section of
\* the section table, at an address inside it, and every other symbol of
\* the section is at a lower address
peLastOfSection(i) ==
    /\ pe_syms[i].SectionNumber > 0
    /\ pe_syms[i].SectionNumber - 1 < Len0(pe_sects)
    /\ pe_syms[i].Value < pe_sects[pe_syms[i].SectionNumber - 1].VirtualSize
    /\ \A j \in DOMAIN pe_syms :
        (j # i /\ pe_syms[j].SectionNumber = pe_syms[i].SectionNumber)
            => pe_syms[j].Value < pe_syms[i].Value

\* C25: peSynthesizeSizes returns, and every symbol that is the last of its
\* section, the last symbol of the sorted list included, has the distance
\* from its value to the section's end for its size.
C25_LastOfSectionToEnd ==
    pe_pc = "opened" =>
        /\ pe_ret.kind = "ok"
        /\ \A i \in DOMAIN pe_syms :
            peLastOfSection(i) =>
                pe_ret.sizes[i] =
                    pe_sects[pe_syms[i].SectionNumber - 1].VirtualSize - pe_syms[i].Value

(***************************************************************************)
(* internal/functab: PCData.Decode one loop iteration at a time, over raw  *)
(* tables long enough to hold a varint that overflows                      *)
(***************************************************************************)
\* the most one-byte varints at the head of a raw table, the most
\* continuation bytes after them, and the most bytes after those
DsMaxLead == 11
DsMaxCont == 10
DsMaxTail == 1
\* how far past the input's length the model follows the rows of a decode
DsExtraRows == 1

\* the raw tables: lead bytes 2 (the varint 1, the uvarint 2), then cont
\* bytes 128, then the bytes of tail
DsRaw(lead, cont, tail) ==
    [i \in 0..(lead + cont + Len0(tail) - 1) |->
        IF i < lead THEN 2
        ELSE IF i < lead + cont THEN 128
        ELSE tail[i - lead - cont]]

\* a tail byte 2 after 5 to 8 continuation bytes ends a varint of 2^36 or
\* more, which is left out: the numbers of the model stay below 2^31
DsTails(cont) ==
    IF cont \in 5..8 THEN Slices({0}, DsMaxTail) ELSE Slices({0, 2}, DsMaxTail)

DsRaws ==
    UNION {{DsRaw(lead, cont, tail) : tail \in DsTails(cont)} :
        lead \in 0..DsMaxLead, cont \in 0..DsMaxCont}

\* "d.pos += uint64(read)" on the uint64 d.pos: a sum below zero wraps to
\* a position past every slice, written DsWrapped
DsWrapped == -1

dsAdvance(pos, read) == IF pos + read < 0 THEN DsWrapped ELSE pos + read

DsIdle ==
    /\ ds_raw = Empty0
    /\ ds_state = "none"
    /\ ds_pos = 0
    /\ ds_i = 0
    /\ ds_pc = 0
    /\ ds_val = -1
    /\ ds_tab = [PCs |-> Empty0, Values |-> Empty0]

\* lines 16-19: Decode is called on a PCData
decodeStart ==
    /\ ds_state = "none"
    /\ ds_raw' \in DsRaws
    /\ ds_state' = "loop"
    /\ UNCHANGED <<ds_pos, ds_i, ds_pc, ds_val, ds_tab>>
    /\ Frame("pcstep")

\* lines 20-31: one iteration of the loop.  d.data[d.pos:] panics when
\* d.pos is past the end of d.data.
decodeIteration ==
    /\ ds_state = "loop"
    /\ Len0(ds_tab.Values) < Len0(ds_raw) + 1 + DsExtraRows
    /\ IF ds_pos = DsWrapped
       THEN /\ ds_state' = "panic"
            /\ UNCHANGED <<ds_pos, ds_i, ds_pc, ds_val, ds_tab>>
       ELSE \E v \in {binaryVarint(ds_raw, ds_pos)} :
            \E pos1 \in {dsAdvance(ds_pos, v.read)} :
                IF v.val = 0 /\ ds_i # 0
                THEN /\ ds_state' = "returned"
                     /\ ds_pos' = pos1
                     /\ ds_tab' = [ds_tab EXCEPT !.PCs = Append0(@, ds_pc)]
                     /\ UNCHANGED <<ds_i, ds_pc, ds_val>>
                ELSE /\ ds_val' = ds_val + v.val
                     /\ ds_tab' = [PCs |-> Append0(ds_tab.PCs, ds_pc),
                                   Values |-> Append0(ds_tab.Values, ds_val + v.val)]
                     /\ IF pos1 = DsWrapped
                        THEN /\ ds_state' = "panic"
                             /\ ds_pos' = pos1
                             /\ UNCHANGED <<ds_i, ds_pc>>
                        ELSE \E u \in {binaryUvarint(ds_raw, pos1)} :
                                /\ ds_pc' = ds_pc + u.val
                                /\ ds_pos' = dsAdvance(pos1, u.read)
                                /\ ds_i' = ds_i + 1
                                /\ ds_state' = "loop"
    /\ UNCHANGED ds_raw
    /\ Frame("pcstep")

\* C26: Decode emits at most one row more than its input has bytes: the
\* first row needs no byte, every further row a non-zero value delta.
C26_RowsBoundedByInput ==
    Len0(ds_tab.Values) <= Len0(ds_raw) + 1

(***************************************************************************)
(* cmd/objbrowse hexview.go: HexView.DecodeSym                             *)
(***************************************************************************)
\* the addresses of the model are words of HxBits bits, standing for uint64
HxBits == 4
\* the most relocations of a symbol's data and the bytes of the data
HxMaxRelocs == 2
HxDataLen == 2

HxWord == 2 ^ HxBits

\* x - y on unsigned words
hxSub(x, y) == (x - y + HxWord) % HxWord

\* v.symTab.Syms(): the names
HxSyms == [i \in 0..1 |-> IF i = 0 THEN "main" ELSE "main.init"]

\* obj.Reloc as data.R.Get gives it; Symbol may be -1 or past the table
HxRelocs ==
    [Offset : 0..5, Size : {1, 4}, Type : {"R_X86_64_64", "R_X86_64_PC32"},
     Symbol : {-1, 1, 2}, Addend : {0, -4}]

\* the relocations a range query for [addr, addr+HxDataLen) returns are in
\* order of offset and overlap the range
hxOverlapping(addr, relocs) ==
    /\ \A i \in DOMAIN relocs :
        relocs[i].Offset < addr + HxDataLen /\ relocs[i].Offset + relocs[i].Size > addr
    /\ \A i, j \in DOMAIN relocs : i < j => relocs[i].Offset <= relocs[j].Offset

\* fmt.Sprintf("%x", p): two hex digits for each byte
hxDigit(n) == <<"0", "1", "2", "3", "4", "5", "6", "7",
                "8", "9", "a", "b", "c", "d", "e", "f">>[n + 1]

hxSprintf(p) ==
    [i \in 0..(2 * Len0(p) - 1) |->
        IF i % 2 = 0 THEN hxDigit(p[i \div 2] \div 16) ELSE hxDigit(p[i \div 2] % 16)]

\* rtypes after the first n relocations: the type names in order of first
\* appearance
RECURSIVE hxRTypes(_, _)
hxRTypes(relocs, n) ==
    IF n = 0 THEN Empty0
    ELSE LET before == hxRTypes(relocs, n - 1)
         IN  IF \E k \in DOMAIN before : before[k] = relocs[n - 1].Type
             THEN before
             ELSE Append0(before, relocs[n - 1].Type)

\* rtypeMap[typ]
hxTypeIndex(rtypes, typ) == CHOOSE k \in DOMAIN rtypes : rtypes[k] = typ

\* HexView.DecodeSym(data): the HexViewJS
hexDecodeSym(data) ==
    LET rtypes == hxRTypes(data.R, Len0(data.R))
    IN  [Addr |-> data.Addr,
         Data |-> hxSprintf(data.P),
         Relocs |-> [i \in DOMAIN data.R |->
            LET r == data.R[i]
            IN  [Offset |-> hxSub(r.Offset, data.Addr),
                 Bytes |-> r.Size,
                 Type |-> hxTypeIndex(rtypes, r.Type),
                 Sym |-> IF r.Symbol >= 0 /\ r.Symbol < Len0(HxSyms)
                         THEN HxSyms[r.Symbol] ELSE "",
                 Addend |-> r.Addend]],
         RTypes |-> rtypes]

HxIdle ==
    /\ hx_data = [Addr |-> 0, P |-> Empty0, R |-> Empty0]
    /\ hx_state = "none"
    /\ hx_ret = [Addr |-> 0, Data |-> Empty0, Relocs |-> Empty0, RTypes |-> Empty0]

\* the server has the data of a symbol
hxData ==
    /\ hx_state = "none"
    /\ \E addr \in 0..3, p \in [0..(HxDataLen - 1) -> {0, 171}],
          relocs \in Slices(HxRelocs, HxMaxRelocs) :
        /\ hxOverlapping(addr, relocs)
        /\ hx_data' = [Addr |-> addr, P |-> p, R |-> relocs]
    /\ hx_state' = "data"
    /\ UNCHANGED hx_ret
    /\ Frame("hexview")

\* DecodeSym is called for it
DecodeSym ==
    /\ hx_state = "data"
    /\ hx_ret' = hexDecodeSym(hx_data)
    /\ hx_state' = "decoded"
    /\ UNCHANGED hx_data
    /\ Frame("hexview")

\* C27: the offset the hex view reports for each relocation is r.Offset -
\* data.Addr as a signed number, negative for a relocation that starts
\* before the data.
C27_OffsetIsSigned ==
    hx_state = "decoded" =>
        \A i \in DOMAIN hx_ret.Relocs :
            hx_ret.Relocs[i].Offset = hx_data.R[i].Offset - hx_data.Addr

(***************************************************************************)
(* internal/src SourceBlocks and cmd/objbrowse sourceview.go: the source   *)
(* block of one function and file, and the source view of it               *)
(***************************************************************************)
SbMaxRows == 3
contextLines == 5

\* the line numbers of the rows
SbLines == {0, 1, 2, 9}

\* mergeRanges: sort by Low, then merge overlapping ranges
RECURSIVE mergeLoop(_, _, _)
mergeLoop(ranges, o, i) ==
    IF i >= Len0(ranges) THEN Slice0(ranges, 0, o + 1)
    ELSE IF ranges[o].High >= ranges[i].Low
         THEN mergeLoop(IF ranges[i].High > ranges[o].High
                        THEN [ranges EXCEPT ![o].High = ranges[i].High]
                        ELSE ranges, o, i + 1)
         ELSE mergeLoop([ranges EXCEPT ![o + 1] = ranges[i]], o + 1, i + 1)

\* every Low of a line's ranges is different in the model, so the sort has
\* one outcome
mergeRanges(ranges) ==
    mergeLoop(CHOOSE s \in offSorted(ranges, [i \in DOMAIN ranges |-> ranges[i].Low]) : TRUE,
              0, 1)

SbIdle ==
    /\ sb_sr = [nil |-> TRUE, lineStart |-> 0, lineEnd |-> 0, pcs |-> <<>>]
    /\ sb_rows = 0
    /\ sb_state = "rows"
    /\ sb_block = [LineStart |-> 0, NLines |-> 0, PCs |-> <<>>]
    /\ sb_view = [kind |-> "none", Start |-> 0, n |-> 0, at |-> {}]

\* "Update the source range."
addLineRange(sr, line) ==
    IF sr.lineStart = 0
    THEN [sr EXCEPT !.nil = FALSE, !.lineStart = line, !.lineEnd = line + 1]
    ELSE [sr EXCEPT !.nil = FALSE,
                    !.lineStart = IF line < sr.lineStart THEN line ELSE sr.lineStart,
                    !.lineEnd = IF line > sr.lineEnd THEN line ELSE sr.lineEnd]

\* "Add a PC range."
addLinePCs(pcs, line, r) ==
    IF ~(r.Low < r.High) THEN pcs
    ELSE LET pcRanges == IF line \in DOMAIN pcs THEN pcs[line] ELSE Empty0
             n == Len0(pcRanges)
             new == IF n > 0 /\ pcRanges[n - 1].High = r.Low
                    THEN [pcRanges EXCEPT ![n - 1].High = r.High]
                    ELSE Append0(pcRanges, r)
         IN  [l \in DOMAIN pcs \cup {line} |-> IF l = line THEN new ELSE pcs[l]]

\* a row of the line table is added: a row of the function with the
\* addresses [row, row+1), or the call line of an inlined call, which has
\* no addresses
addLine ==
    /\ sb_state = "rows"
    /\ sb_rows < SbMaxRows
    /\ \E line \in SbLines, call \in BOOLEAN :
        LET r == IF call THEN [Low |-> 0, High |-> 0]
                 ELSE [Low |-> 2 * sb_rows, High |-> 2 * sb_rows + 1]
            sr == addLineRange(sb_sr, line)
        IN  sb_sr' = [sr EXCEPT !.pcs = addLinePCs(sb_sr.pcs, line, r)]
    /\ sb_rows' = sb_rows + 1
    /\ UNCHANGED <<sb_state, sb_block, sb_view>>
    /\ Frame("srcblocks")

\* "Finalize each sourceRange into a SourceBlock."
SourceBlocks ==
    /\ sb_state = "rows"
    /\ ~sb_sr.nil
    /\ sb_block' = [LineStart |-> sb_sr.lineStart,
                    NLines |-> sb_sr.lineEnd - sb_sr.lineStart + 1,
                    PCs |-> [l \in DOMAIN sb_sr.pcs |-> mergeRanges(sb_sr.pcs[l])]]
    /\ sb_state' = "blocks"
    /\ UNCHANGED <<sb_sr, sb_rows, sb_view>>
    /\ Frame("srcblocks")

\* SourceView.View, lines 72-111, for the block: bjs.PCs has end-start
\* entries, and an index outside it panics
View ==
    /\ sb_state = "blocks"
    /\ LET start0 == sb_block.LineStart - contextLines
           end == sb_block.LineStart + sb_block.NLines + contextLines
           start == IF start0 < 1 THEN 1 ELSE start0
           at == {line - start : line \in DOMAIN sb_block.PCs}
       IN  sb_view' = [kind |-> IF \A i \in at : 0 <= i /\ i < end - start
                                THEN "ok" ELSE "panic",
                       Start |-> start, n |-> end - start, at |-> at]
    /\ sb_state' = "viewed"
    /\ UNCHANGED <<sb_sr, sb_rows, sb_block>>
    /\ Frame("srcblocks")

\* C28: every line with PC ranges of a SourceBlock lies in [LineStart,
\* LineStart+NLines), and every index line - start the source view uses is
\* in [0, end - start).
C28_LinesInsideBlock ==
    /\ sb_state \in {"blocks", "viewed"} =>
        \A line \in DOMAIN sb_block.PCs :
            sb_block.LineStart <= line /\ line < sb_block.LineStart + sb_block.NLines
    /\ sb_state = "viewed" =>
        \A i \in sb_view.at : 0 <= i /\ i < sb_view.n

(***************************************************************************)
(* cmd/objbrowse/web/objbrowse.tsx: the columns of EntityPanel             *)
(***************************************************************************)
\* the highest id handed out, and the most columns open at once
EpMaxId == 11
EpMaxCols == 3
\* the entries of the session history that hold a state of the panel
EpMaxHist == 1

\* what parseInt gives for a string that does not start with a number
EpNaN == -1

EpDigits == <<"0", "1", "2", "3", "4", "5", "6", "7", "8", "9">>

\* Number.prototype.toString for the ids: the decimal digits
RECURSIVE numberToString(_)
numberToString(n) ==
    IF n < 10 THEN <<EpDigits[n + 1]>>
    ELSE Append(numberToString(n \div 10), EpDigits[(n % 10) + 1])

\* Array.prototype.join(" ")
RECURSIVE joinFrom(_, _)
joinFrom(panels, k) ==
    IF k > Len(panels) THEN <<>>
    ELSE IF k = Len(panels) THEN numberToString(panels[k])
    ELSE numberToString(panels[k]) \o <<" ">> \o joinFrom(panels, k + 1)

\* the encoder of the panel's state: v => v.panels.join(" ")
encodeState(v) == joinFrom(v.panels, 1)

\* String.prototype.split(" "): the pieces of x from character k on, cur
\* being the piece under way
RECURSIVE splitFrom(_, _, _)
splitFrom(x, k, cur) ==
    IF k > Len(x) THEN <<cur>>
    ELSE IF x[k] = " " THEN <<cur>> \o splitFrom(x, k + 1, <<>>)
    ELSE splitFrom(x, k + 1, Append(cur, x[k]))

isDigit(c) == \E d \in DOMAIN EpDigits : EpDigits[d] = c

digitValue(c) == (CHOOSE d \in DOMAIN EpDigits : EpDigits[d] = c) - 1

\* parseInt(v): the number its leading digits spell, NaN without any
RECURSIVE parseIntFrom(_, _, _)
parseIntFrom(v, k, n) ==
    IF k > Len(v) \/ ~isDigit(v[k]) THEN IF k = 1 THEN EpNaN ELSE n
    ELSE parseIntFrom(v, k + 1, 10 * n + digitValue(v[k]))

parseInt(v) == parseIntFrom(v, 1, 0)

\* Math.max(...panels)
RECURSIVE mathMax(_, _)
mathMax(panels, k) ==
    IF k = Len(panels) THEN panels[k]
    ELSE LET m == mathMax(panels, k + 1)
         IN  IF panels[k] > m THEN panels[k] ELSE m

EpUndefined == [id |-> 0, panels |-> <<>>]

\* decodeState takes the highest id for the next one
decodeState_max(x) ==
    LET pieces == splitFrom(x, 1, <<>>)
        panels == [k \in DOMAIN pieces |-> parseInt(pieces[k])]
    IN  IF \E k \in DOMAIN panels : panels[k] = EpNaN THEN EpUndefined
        ELSE [id |-> mathMax(panels, 1), panels |-> panels]

\* decodeState(x) for a string x; EpUndefined stands for undefined
decodeState(x) ==
    LET pieces == splitFrom(x, 1, <<>>)
        panels == [k \in DOMAIN pieces |-> parseInt(pieces[k])]
    IN  IF \E k \in DOMAIN panels : panels[k] = EpNaN THEN EpUndefined
        ELSE [id |-> mathMax(panels, 1) + 1, panels |-> panels]

\* the reducer of EntityPanel
entityPanelReducer(old, action) ==
    IF action[1] = "add"
    THEN [id |-> old.id + 1, panels |-> Append(old.panels, old.id)]
    ELSE [id |-> old.id,
          panels |-> SelectSeq(old.panels, LAMBDA id : id # action[2])]

EpInitial == [id |-> 1, panels |-> <<0>>]

EpIdle ==
    /\ ep_state = EpInitial
    /\ ep_hist = {}
    /\ ep_last = "none"
    /\ ep_pops = 0

\* the "New column" button of the last column
epAdd ==
    /\ ep_state.id < EpMaxId
    /\ Len(ep_state.panels) < EpMaxCols
    /\ ep_state' = entityPanelReducer(ep_state, <<"add">>)
    /\ ep_last' = "add"
    /\ UNCHANGED <<ep_hist, ep_pops>>
    /\ Frame("panel")

\* the "Close column" button of a column, shown while there are many
epClose ==
    /\ Len(ep_state.panels) > 1
    /\ \E k \in DOMAIN ep_state.panels :
        ep_state' = entityPanelReducer(ep_state, <<"close", ep_state.panels[k]>>)
    /\ ep_last' = "close"
    /\ UNCHANGED <<ep_hist, ep_pops>>
    /\ Frame("panel")

\* the encoded state is committed to an entry of the session history
epCommit ==
    /\ ep_last \in {"add", "close"}
    /\ Cardinality(ep_hist \cup {encodeState(ep_state)}) <= EpMaxHist
    /\ ep_hist' = ep_hist \cup {encodeState(ep_state)}
    /\ UNCHANGED <<ep_state, ep_last, ep_pops>>
    /\ Frame("panel")

\* popstate, or a reload of the page: the state is restored from an entry
\* of the history; from one without a state of the panel, or one that
\* does not decode, to the initial state
epRestore ==
    /\ ep_pops < 2
    /\ \/ ep_state' = EpInitial
       \/ \E x \in ep_hist :
            \E n \in {decodeState(x)} :
                ep_state' = IF n = EpUndefined THEN EpInitial ELSE n
    /\ ep_last' = "restore"
    /\ ep_pops' = ep_pops + 1
    /\ UNCHANGED ep_hist
    /\ Frame("panel")

\* C29: the column ids are pairwise distinct, there is at least one column,
\* and state.id is above every column id.
C29_ColumnIdsDistinct ==
    /\ ep_state.panels # <<>>
    /\ \A j, k \in DOMAIN ep_state.panels :
        j # k => ep_state.panels[j] # ep_state.panels[k]
    /\ \A k \in DOMAIN ep_state.panels : ep_state.panels[k] < ep_state.id

\* a column was added after a restore from a history entry that lowered
\* state.id below an id handed out before, the first column being closed
C29_Witness ==
    /\ ep_pops >= 1
    /\ ep_last = "add"
    /\ ep_state.panels[1] # 0
    /\ \E x \in ep_hist : decodeState(x).id > ep_state.id
    /\ Len(ep_state.panels) >= 2

(***************************************************************************)
(* internal/src/linecache.go: readAt and the error it returns              *)
(***************************************************************************)
\* the largest offset readAt is called with
RaMaxOff == 4

\* f.Read(buf) with the file positioned at pos: got is how many bytes the
\* Read gives when it may give any; at the end of the file it gives io.EOF
raRead(data, size, pos, got) ==
    LET left == IF pos > Len0(data) THEN 0 ELSE Len0(data) - pos
        avail == IF size < left THEN size ELSE left
        n == IF got < avail THEN got ELSE avail
    IN  [n |-> n, err |-> IF n = 0 /\ size > 0 THEN "EOF" ELSE "nil"]

\* f2.ReadAt(buf, off): all the bytes there are, with io.EOF when they
\* are fewer than len(buf)
raReadAt(data, size, off) ==
    LET left == IF off > Len0(data) THEN 0 ELSE Len0(data) - off
        n == IF size < left THEN size ELSE left
    IN  [n |-> n, err |-> IF n < size THEN "EOF" ELSE "nil"]

\* io.CopyN(io.Discard, f, off): io.EOF when the file ends before off bytes
raCopyN(data, off) == IF off > Len0(data) THEN "EOF" ELSE "nil"

\* readAt(f, buf, off) with len(buf) = size on a file that reads without
\* I/O errors: the error returned and the bytes in buf when it is nil
readAtError(file, size, off, got) ==
    LET discard == IF file.kind = "Reader" THEN raCopyN(file.data, off) ELSE "nil"
        r == IF file.kind = "ReaderAt" THEN raReadAt(file.data, size, off)
             ELSE raRead(file.data, size, off, got)
    IN  IF discard # "nil" THEN [err |-> discard, buf |-> Empty0]
        ELSE IF r.n = size
             THEN [err |-> "nil", buf |-> Slice0(file.data, off, off + size)]
        ELSE IF r.err # "nil" /\ r.err # "EOF" THEN [err |-> r.err, buf |-> Empty0]
        ELSE [err |-> "ErrUnexpectedEOF", buf |-> Empty0]

RaIdle ==
    /\ ra_file = [data |-> Empty0, kind |-> "ReaderAt"]
    /\ ra_arg = [size |-> 0, off |-> 0]
    /\ ra_calls = 0
    /\ ra_ret = [err |-> "none", buf |-> Empty0]

\* readAt is called on a file positioned at its start
readAtCall ==
    /\ ra_calls < 2
    /\ \E data \in Slices(LcBytes, LcMaxFile), kind \in {"ReaderAt", "ReadSeeker", "Reader"},
          size \in 0..LcMaxFile, off \in 0..RaMaxOff, got \in 1..LcMaxFile :
        /\ kind = "ReaderAt" => got = LcMaxFile
        /\ ra_file' = [data |-> data, kind |-> kind]
        /\ ra_arg' = [size |-> size, off |-> off]
        /\ ra_ret' = readAtError(ra_file', size, off, got)
    /\ ra_calls' = ra_calls + 1
    /\ Frame("readat")

\* C30: on each access path readAt returns nil, with the len(buf) bytes at
\* off in buf, when the file has that many bytes from off, and
\* io.ErrUnexpectedEOF when it has fewer (buffers of at least one byte).
C30_SameOutcomeOnAllPaths ==
    (ra_ret.err # "none" /\ ra_arg.size >= 1) =>
        IF ra_arg.off + ra_arg.size <= Len0(ra_file.data)
        THEN /\ ra_ret.err = "nil"
             /\ ra_ret.buf = Slice0(ra_file.data, ra_arg.off, ra_arg.off + ra_arg.size)
        ELSE ra_ret.err = "ErrUnexpectedEOF"

(***************************************************************************)
(* Specifications: every component starts idle, and each specification     *)
(* takes the steps of one component                                        *)
(***************************************************************************)
Init ==
    /\ SymIdle
    /\ ElfIdle
    /\ RelIdle
    /\ PcIdle
    /\ LvIdle
    /\ FtIdle
    /\ LcIdle
    /\ RgIdle
    /\ ImIdle
    /\ MainIdle
    /\ HsIdle
    /\ RelGetIdle
    /\ LkIdle
    /\ PeIdle
    /\ DsIdle
    /\ HxIdle
    /\ SbIdle
    /\ EpIdle
    /\ RaIdle

NextSymtab == NewTable \/ Addr

SpecSymtab == Init /\ [][NextSymtab]_vars

NextElfSyms == elfLoadSyms \/ elfSynthesizeSizes

SpecElfSyms == Init /\ [][NextElfSyms]_vars

\* one caller at a time, on every file of the model
InitRelocs ==
    /\ SymIdle
    /\ ElfIdle
    /\ RelOpened(RelFiles(Relas, RelMaxSrc0, RelMaxSrc1))
    /\ PcIdle
    /\ LvIdle
    /\ FtIdle
    /\ LcIdle
    /\ RgIdle
    /\ ImIdle
    /\ MainIdle
    /\ HsIdle
    /\ RelGetIdle
    /\ LkIdle
    /\ PeIdle
    /\ DsIdle
    /\ HxIdle
    /\ SbIdle
    /\ EpIdle
    /\ RaIdle

sectRelocs(t) ==
    \/ sectRelocsCall(t)
    \/ onceDo(t)
    \/ onceDoSlow(t)
    \/ sectRelocsLoad(t)
    \/ onceDone(t)
    \/ sectRelocsSlice(t)

NextRelocs == sectRelocs(1)

SpecRelocs == InitRelocs /\ [][NextRelocs]_vars

\* concurrent callers, on the files with at most one relocation per table
InitRelocsConc ==
    /\ SymIdle
    /\ ElfIdle
    /\ RelOpened(RelFiles(RelConcRelas, 1, 1))
    /\ PcIdle
    /\ LvIdle
    /\ FtIdle
    /\ LcIdle
    /\ RgIdle
    /\ ImIdle
    /\ MainIdle
    /\ HsIdle
    /\ RelGetIdle
    /\ LkIdle
    /\ PeIdle
    /\ DsIdle
    /\ HxIdle
    /\ SbIdle
    /\ EpIdle
    /\ RaIdle

NextRelocsConc == \E t \in 1..RelThreads : sectRelocs(t)

SpecRelocsConc == InitRelocsConc /\ [][NextRelocsConc]_vars

NextPCData == linkPCData \/ Decode

SpecPCData == Init /\ [][NextPCData]_vars

NextPCDataRaw == rawPCData \/ Decode

SpecPCDataRaw == Init /\ [][NextPCDataRaw]_vars

NextLiveness == newFunc \/ Liveness \/ Lookup \/ livenessListing \/ livenessRanges

SpecLiveness == Init /\ [][NextLiveness]_vars

NextFuncTab == openPclntab \/ NewFuncTab \/ FuncDataStackMap

SpecFuncTab == Init /\ [][NextFuncTab]_vars

NextLineCache == newLineCache \/ Get

SpecLineCache == Init /\ [][NextLineCache]_vars

NextRanges == newRanges \/ find \/ anyIntersection

SpecRanges == Init /\ [][NextRanges]_vars

NextIntervalMap == mkMap \/ get \/ join

SpecIntervalMap == Init /\ [][NextIntervalMap]_vars

NextMain == mainOpen \/ mainNewServer \/ mainServe \/ serveQuery \/ legacyOpen \/ legacyServe

SpecMain == Init /\ [][NextMain]_vars

NextHistory == dispatch \/ runUpdater \/ commitState

SpecHistory == Init /\ [][NextHistory]_vars

\* one caller, on the files whose relocations name symbols
InitRelocsSym ==
    /\ SymIdle
    /\ ElfIdle
    /\ RelOpened(RelFiles(RelSymRelas, RelMaxSrc0, RelMaxSrc0))
    /\ PcIdle
    /\ LvIdle
    /\ FtIdle
    /\ LcIdle
    /\ RgIdle
    /\ ImIdle
    /\ MainIdle
    /\ HsIdle
    /\ RelGetIdle
    /\ LkIdle
    /\ PeIdle
    /\ DsIdle
    /\ HxIdle
    /\ SbIdle
    /\ EpIdle
    /\ RaIdle

NextRelocsSym == sectRelocs(1) \/ relocsGet(1)

SpecRelocsSym == InitRelocsSym /\ [][NextRelocsSym]_vars

lineCacheGet(t) ==
    \/ lkCall(t)
    \/ lkLock(t)
    \/ lkLookup(t)
    \/ lkBuild(t)
    \/ lkUnlock(t)
    \/ lkRead(t)
    \/ lkReturn(t)

NextLineLock == \E t \in 1..LkThreads : lineCacheGet(t)

SpecLineLock == Init /\ [][NextLineLock]_vars

NextPE == peNewFile \/ openPE

SpecPE == Init /\ [][NextPE]_vars

NextPCDataSteps == decodeStart \/ decodeIteration

SpecPCDataSteps == Init /\ [][NextPCDataSteps]_vars

NextHexView == hxData \/ DecodeSym

SpecHexView == Init /\ [][NextHexView]_vars

NextSourceBlocks == addLine \/ SourceBlocks \/ View

SpecSourceBlocks == Init /\ [][NextSourceBlocks]_vars

NextEntityPanel == epAdd \/ epClose \/ epCommit \/ epRestore

SpecEntityPanel == Init /\ [][NextEntityPanel]_vars

NextReadAt == readAtCall

SpecReadAt == Init /\ [][NextReadAt]_vars

=============================================================================
